---- MODULE Spec2Model ----
(***************************************************************************)
(* Model of clang/tools/libclang/PathogenExtensions.cpp: the record layout *)
(* builder (PathogenRecordLayout, pathogen_GetRecordLayout), the v-table   *)
(* chain, the constant evaluator (pathogen_ComputeConstantValue), the      *)
(* function ABI classifier (pathogen_GetArrangedFunction), the macro       *)
(* enumerator (pathogen_EnumerateMacros), the stand-alone queries          *)
(* (pathogen_GetTypeSizes, pathogen_getArgPassingRestrictions, the         *)
(* callability checks), the template instantiation helpers, the raw        *)
(* declaration enumeration and the code generator handle.                  *)
(*                                                                         *)
(* Heap objects are modelled as sequences: the address of a node is its    *)
(* index in the sequence, NULL is 0, and a node allocated by `new` or      *)
(* malloc is appended.  Each node counts how often it was released.        *)
(***************************************************************************)
EXTENDS Integers, Sequences, FiniteSets, TLC

VARIABLES
    pc,             \* position of the caller: "idle", "built", "deleted"
    FirstField,     \* PathogenRecordLayout::FirstField
    FirstVTable,    \* PathogenRecordLayout::FirstVTable
    fieldHeap,      \* every PathogenRecordField ever allocated
    vtableHeap,     \* every PathogenVTable ever allocated
    entriesHeap,    \* every Entries array ever malloc'ed
    badRead,        \* a node was read after it was released
    header,         \* the scalar members of the PathogenRecordLayout
    layoutAllocs,   \* number of `new PathogenRecordLayout()` executed
    layoutFrees,    \* number of `delete layout` executed on the object
    ret,            \* what pathogen_GetRecordLayout returned
    cursor,         \* the cursor pathogen_GetRecordLayout was called with
    calls,          \* the AddField calls made so far: offset and kind of each
    cv,             \* the state of a pathogen_ComputeConstantValue call
    ab,             \* the state of the function ABI classifier and its blocks
    mc,             \* the state of a pathogen_EnumerateMacros call
    qr,             \* the state of a call of one of the stand-alone queries
    tp,             \* the front end's type table and the template instantiation calls
    de,             \* the state of a raw declaration enumeration
    cg              \* the PathogenCodeGenerator handle and the objects it owned

vars == <<pc, FirstField, FirstVTable, fieldHeap, vtableHeap, entriesHeap,
          badRead, header, layoutAllocs, layoutFrees, ret, cursor, calls, cv,
          ab, mc, qr, tp, de, cg>>

NULL == 0

-----------------------------------------------------------------------------
(* Bounds of the model *)

\* nodes a free-standing sequence of AddField calls may insert
MaxFieldNodes == 3
\* offsets of those calls range over -1 .. MaxOffset
MaxOffset == 1
\* tables a free-standing sequence of AddVTableLayout calls may append
MaxVTables == 2
\* components of one v-table layout
MaxEntries == 1

-----------------------------------------------------------------------------
(* enum class PathogenRecordFieldKind *)

PathogenRecordFieldKind ==
    {"Normal", "VTablePtr", "NonVirtualBase", "VirtualBaseTablePtr", "VTorDisp", "VirtualBase"}

(* enum class PathogenVTableEntryKind *)
PathogenVTableEntryKind ==
    {"VCallOffset", "VBaseOffset", "OffsetToTop", "RTTI", "FunctionPointer",
     "CompleteDestructorPointer", "DeletingDestructorPointer", "UnusedFunctionPointer"}

-----------------------------------------------------------------------------
(* The memory a PathogenRecordLayout owns, as one value the operations map. *)

Mem ==
    [FirstField |-> FirstField, FirstVTable |-> FirstVTable, fieldHeap |-> fieldHeap,
     vtableHeap |-> vtableHeap, entriesHeap |-> entriesHeap, badRead |-> badRead]

\* new PathogenRecordLayout(): value-initialised, both list heads are nullptr
EmptyMem ==
    [FirstField |-> NULL, FirstVTable |-> NULL, fieldHeap |-> <<>>,
     vtableHeap |-> <<>>, entriesHeap |-> <<>>, badRead |-> FALSE]

SetMem(m) ==
    /\ FirstField' = m.FirstField
    /\ FirstVTable' = m.FirstVTable
    /\ fieldHeap' = m.fieldHeap
    /\ vtableHeap' = m.vtableHeap
    /\ entriesHeap' = m.entriesHeap
    /\ badRead' = m.badRead

\* new PathogenRecordField(): value-initialised
NewField ==
    [Kind |-> "Normal", Offset |-> 0, NextField |-> NULL, Name |-> "", Type |-> "",
     FieldDeclaration |-> NULL, IsBitField |-> FALSE, BitFieldStart |-> 0,
     BitFieldWidth |-> 0, IsPrimaryBase |-> FALSE, frees |-> 0, nameDisposed |-> 0]

-----------------------------------------------------------------------------
(* PathogenRecordLayout::AddField(kind, offset, name, type) *)

\* *insertPoint, where insertPoint is &FirstField (0) or &node->NextField (node)
DerefInsertPoint(m, ip) ==
    IF ip = 0 THEN m.FirstField ELSE m.fieldHeap[ip].NextField

\* a scan that also stops at a node of the same offset
ScanContinuesWhileLess(nodeOffset, offset) == nodeOffset < offset

\* the loop condition on the node under *insertPoint: (*insertPoint)->Offset <= offset
ScanContinues(nodeOffset, offset) == nodeOffset <= offset

RECURSIVE FindInsertPoint(_, _, _)
FindInsertPoint(m, ip, offset) ==
    LET cur == DerefInsertPoint(m, ip) IN
    IF cur # NULL /\ ScanContinues(m.fieldHeap[cur].Offset, offset)
    THEN FindInsertPoint(m, cur, offset)
    ELSE ip

\* a variant that links every new node at the head of the list
AddFieldAtHead(m, kind, offset, name, type) ==
    LET addr == Len(m.fieldHeap) + 1
        field == [NewField EXCEPT !.Kind = kind, !.Offset = offset, !.Name = name,
                                  !.Type = type, !.NextField = m.FirstField]
    IN  [m EXCEPT !.fieldHeap = Append(@, field), !.FirstField = addr]

AddField(m, kind, offset, name, type) ==
    LET insertPoint == FindInsertPoint(m, 0, offset)
        addr == Len(m.fieldHeap) + 1
        field == [NewField EXCEPT !.Kind = kind, !.Offset = offset, !.Name = name,
                                  !.Type = type,
                                  !.NextField = DerefInsertPoint(m, insertPoint)]
        heap1 == Append(m.fieldHeap, field)
    IN  IF insertPoint = 0
        THEN [m EXCEPT !.fieldHeap = heap1, !.FirstField = addr]
        ELSE [m EXCEPT !.fieldHeap = [heap1 EXCEPT ![insertPoint].NextField = addr]]

\* the address AddField returns: the node it allocated
LastField(m) == Len(m.fieldHeap)

-----------------------------------------------------------------------------
(* PathogenVTable and PathogenRecordLayout::AddVTableLayout *)

\* PathogenVTableEntry(translationUnit, component)
PathogenVTableEntry(component) ==
    [Kind |-> component.kind,
     MethodDeclaration |->
        IF component.kind \in {"FunctionPointer", "CompleteDestructorPointer",
                               "DeletingDestructorPointer", "UnusedFunctionPointer"}
        THEN component.decl ELSE NULL,
     RttiType |-> IF component.kind = "RTTI" THEN component.decl ELSE NULL,
     Offset |-> IF component.kind \in {"VCallOffset", "VBaseOffset", "OffsetToTop"}
                THEN component.offset ELSE 0]

\* PathogenVTable(translationUnit, layout): the node and its malloc'ed Entries
PathogenVTable(m, layout) ==
    LET components == layout.components
        EntryCount == Len(components)
        Entries == Len(m.entriesHeap) + 1
        array == [data |-> [i \in 1..EntryCount |-> PathogenVTableEntry(components[i])],
                  frees |-> 0]
        node == [EntryCount |-> EntryCount, Entries |-> Entries, NextVTable |-> NULL,
                 frees |-> 0]
    IN  [m EXCEPT !.entriesHeap = Append(@, array), !.vtableHeap = Append(@, node)]

DerefVTableInsertPoint(m, ip) ==
    IF ip = 0 THEN m.FirstVTable ELSE m.vtableHeap[ip].NextVTable

RECURSIVE FindVTableInsertPoint(_, _)
FindVTableInsertPoint(m, ip) ==
    LET cur == DerefVTableInsertPoint(m, ip) IN
    IF cur # NULL THEN FindVTableInsertPoint(m, cur) ELSE ip

\* a variant that links the new table at the head of the chain
AddVTableLayoutAtHead(m, layout) ==
    LET m1 == PathogenVTable(m, layout)
        addr == Len(m1.vtableHeap)
    IN  [m1 EXCEPT !.vtableHeap[addr].NextVTable = m.FirstVTable, !.FirstVTable = addr]

AddVTableLayout(m, layout) ==
    LET insertPoint == FindVTableInsertPoint(m, 0)
        m1 == PathogenVTable(m, layout)
        addr == Len(m1.vtableHeap)
        m2 == [m1 EXCEPT !.vtableHeap[addr].NextVTable = DerefVTableInsertPoint(m, insertPoint)]
    IN  IF insertPoint = 0
        THEN [m2 EXCEPT !.FirstVTable = addr]
        ELSE [m2 EXCEPT !.vtableHeap[insertPoint].NextVTable = addr]

-----------------------------------------------------------------------------
(* PathogenRecordLayout::~PathogenRecordLayout *)

\* one iteration of the field loop: read NextField, dispose the name, delete
DeleteOneField(m, field) ==
    [next |-> m.fieldHeap[field].NextField,
     mem |-> [m EXCEPT !.badRead = @ \/ m.fieldHeap[field].frees > 0,
                       !.fieldHeap[field].nameDisposed = @ + 1,
                       !.fieldHeap[field].frees = @ + 1]]

RECURSIVE DeleteFields(_, _)
DeleteFields(m, field) ==
    IF field = NULL THEN m
    ELSE LET s == DeleteOneField(m, field) IN DeleteFields(s.mem, s.next)

\* a destructor that releases the node but not its Entries array
DestroyVTableKeepEntries(m, vTable) ==
    [m EXCEPT !.vtableHeap[vTable].frees = @ + 1]

\* delete vTable: ~PathogenVTable() does free(Entries), then the node is released
DestroyVTable(m, vTable) ==
    [m EXCEPT !.entriesHeap[m.vtableHeap[vTable].Entries].frees = @ + 1,
              !.vtableHeap[vTable].frees = @ + 1]

RECURSIVE DeleteVTables(_, _)
DeleteVTables(m, vTable) ==
    IF vTable = NULL THEN m
    ELSE LET nextVTable == m.vtableHeap[vTable].NextVTable
             read == [m EXCEPT !.badRead = @ \/ m.vtableHeap[vTable].frees > 0]
         IN  DeleteVTables(DestroyVTable(read, vTable), nextVTable)

DestroyRecordLayout(m) ==
    DeleteVTables(DeleteFields(m, m.FirstField), m.FirstVTable)

-----------------------------------------------------------------------------
(* Walking the chains, as a caller does *)

RECURSIVE FieldChainFrom(_, _)
FieldChainFrom(heap, a) ==
    IF a = NULL THEN <<>> ELSE <<a>> \o FieldChainFrom(heap, heap[a].NextField)

FieldChain == FieldChainFrom(fieldHeap, FirstField)

RECURSIVE VTableChainFrom(_, _)
VTableChainFrom(heap, a) ==
    IF a = NULL THEN <<>> ELSE <<a>> \o VTableChainFrom(heap, heap[a].NextVTable)

VTableChain == VTableChainFrom(vtableHeap, FirstVTable)

Range(s) == {s[i] : i \in 1..Len(s)}

-----------------------------------------------------------------------------
(* Free-standing use of the list primitives: any sequence of AddField and   *)
(* AddVTableLayout calls on a layout that starts empty, then its release.   *)

ListOffsets == (0 - 1)..MaxOffset

ListKinds == {"Normal", "VirtualBase"}

\* the v-table layout with n components, as the front-end's builder emits them
ComponentAt(i) ==
    IF i = 1 THEN [kind |-> "OffsetToTop", decl |-> NULL, offset |-> 0]
    ELSE IF i = 2 THEN [kind |-> "RTTI", decl |-> 1, offset |-> 0]
    ELSE [kind |-> "FunctionPointer", decl |-> i, offset |-> 0]

VTableLayoutOfSize(n) == [components |-> [i \in 1..n |-> ComponentAt(i)]]

NoCursor == [kind |-> "none"]

NoHeader ==
    [Size |-> 0, Alignment |-> 0, IsCppRecord |-> FALSE, NonVirtualSize |-> 0,
     NonVirtualAlignment |-> 0]

NoConst == [phase |-> "none"]

\* the classifier and the macro enumerator when a specification does not use them
NoAbi == [phase |-> "none"]

NoMacros == [phase |-> "none"]

\* the remaining entry points when a specification does not use them
NoQueries == [phase |-> "none"]

NoTemplates == [phase |-> "none"]

NoDecls == [phase |-> "none"]

NoCodeGen == [phase |-> "none"]

OthersIdle ==
    /\ qr = NoQueries
    /\ tp = NoTemplates
    /\ de = NoDecls
    /\ cg = NoCodeGen

InitList ==
    /\ pc = "built"
    /\ FirstField = NULL
    /\ FirstVTable = NULL
    /\ fieldHeap = <<>>
    /\ vtableHeap = <<>>
    /\ entriesHeap = <<>>
    /\ badRead = FALSE
    /\ header = NoHeader
    /\ layoutAllocs = 1
    /\ layoutFrees = 0
    /\ ret = "layout"
    /\ cursor = NoCursor
    /\ calls = <<>>
    /\ cv = NoConst
    /\ ab = NoAbi
    /\ mc = NoMacros
    /\ OthersIdle

CallAddField ==
    /\ pc = "built"
    /\ Len(fieldHeap) < MaxFieldNodes
    /\ \E kind \in ListKinds, offset \in ListOffsets :
          /\ SetMem(AddField(Mem, kind, offset, "name", "type"))
          /\ calls' = Append(calls, [offset |-> offset, kind |-> kind])
    /\ UNCHANGED <<pc, header, layoutAllocs, layoutFrees, ret, cursor, cv, ab, mc, qr, tp, de, cg>>

CallAddVTableLayout ==
    /\ pc = "built"
    /\ Len(vtableHeap) < MaxVTables
    /\ \E n \in 0..MaxEntries : SetMem(AddVTableLayout(Mem, VTableLayoutOfSize(n)))
    /\ UNCHANGED <<pc, header, layoutAllocs, layoutFrees, ret, cursor, calls, cv, ab, mc, qr, tp, de, cg>>

\* pathogen_DeleteRecordLayout(layout): delete layout (a null layout is a no-op)
pathogen_DeleteRecordLayout ==
    /\ pc = "built"
    /\ IF ret = "layout"
       THEN /\ SetMem(DestroyRecordLayout(Mem))
            /\ layoutFrees' = layoutFrees + 1
       ELSE UNCHANGED <<FirstField, FirstVTable, fieldHeap, vtableHeap, entriesHeap,
                        badRead, layoutFrees>>
    /\ pc' = "deleted"
    /\ UNCHANGED <<header, layoutAllocs, ret, cursor, calls, cv, ab, mc, qr, tp, de, cg>>

NextList == CallAddField \/ CallAddVTableLayout \/ pathogen_DeleteRecordLayout

SpecList == InitList /\ [][NextList]_vars

-----------------------------------------------------------------------------
(* The front-end's view of a record: what pathogen_GetRecordLayout queries. *)

\* direct base classes per record
MaxBases == 2
\* fields per record
MaxDeclFields == 2
\* virtual-function-pointer offsets MicrosoftVTableContext reports per class
MaxVFPtrs == 2

SeqsUpTo(S, n) == UNION {[1..k -> S] : k \in 0..n}

\* a direct base: getBaseClassOffset / getVBaseClassOffset, and for a virtual
\* base the hasVtorDisp() entry of getVBaseOffsetsMap()
BaseSpecifiers ==
    {[isVirtual |-> FALSE, offset |-> 0, hasVtorDisp |-> FALSE],
     [isVirtual |-> FALSE, offset |-> 8, hasVtorDisp |-> FALSE],
     [isVirtual |-> TRUE, offset |-> 0, hasVtorDisp |-> FALSE],
     [isVirtual |-> TRUE, offset |-> 16, hasVtorDisp |-> FALSE],
     [isVirtual |-> TRUE, offset |-> 16, hasVtorDisp |-> TRUE]}

\* a field: getFieldOffset in bits, isBitField, getBitWidthValue
FieldDecls ==
    {[bits |-> 0, isBitField |-> FALSE, width |-> 0],
     [bits |-> 4, isBitField |-> TRUE, width |-> 3],
     [bits |-> 64, isBitField |-> FALSE, width |-> 0]}

\* CXXRecordDecl::isDynamicClass(): polymorphic, or has a virtual base
isDynamicClass(r) ==
    r.polymorphic \/ \E i \in 1..Len(r.bases) : r.bases[i].isVirtual

\* IsMsLayout(context)
IsMsLayout(r) == r.isMs

\* What the layout builders of the front-end guarantee about their results.
FrontEndConsistent(r) ==
    /\ \A i \in 1..(Len(r.fields) - 1) : r.fields[i].bits <= r.fields[i + 1].bits
    /\ ~r.isCxx =>
          /\ r.bases = <<>>
          /\ ~r.polymorphic /\ ~r.hasOwnVFPtr /\ ~r.hasOwnVBPtr
          /\ r.primaryBase = 0 /\ r.numVFPtrs = 0
    \* a primary base is a dynamic class at offset 0 and makes the class polymorphic
    /\ r.primaryBase # 0 =>
          /\ r.polymorphic
          /\ r.bases[r.primaryBase].offset = 0
          /\ r.isMs => ~r.bases[r.primaryBase].isVirtual
    \* Itanium: the class owns a vptr exactly when it is dynamic without primary base
    /\ ~r.isMs =>
          /\ r.hasOwnVFPtr = (isDynamicClass(r) /\ r.primaryBase = 0)
          /\ ~r.hasOwnVBPtr
          /\ r.numVFPtrs = 0
          /\ \A i \in 1..Len(r.bases) : ~r.bases[i].hasVtorDisp
    \* Microsoft: a vfptr of its own only for a polymorphic class without primary
    \* base, and always when there is no base class to inherit one from
    /\ r.isMs =>
          /\ r.hasOwnVFPtr => (r.polymorphic /\ r.primaryBase = 0)
          /\ (r.polymorphic /\ r.bases = <<>>) => r.hasOwnVFPtr
          /\ r.hasOwnVBPtr => \E i \in 1..Len(r.bases) : r.bases[i].isVirtual
          /\ (r.numVFPtrs > 0) = r.polymorphic

RecordDecls ==
    {r \in [isCxx : BOOLEAN, isMs : BOOLEAN, polymorphic : BOOLEAN,
            bases : SeqsUpTo(BaseSpecifiers, MaxBases),
            primaryBase : 0..MaxBases,
            hasOwnVFPtr : BOOLEAN, hasOwnVBPtr : BOOLEAN,
            numVFPtrs : 0..MaxVFPtrs,
            fields : SeqsUpTo(FieldDecls, MaxDeclFields)] :
        r.primaryBase <= Len(r.bases) /\ FrontEndConsistent(r)}

\* a record that is declared but never defined has no layout to describe
NoRecord ==
    [isCxx |-> FALSE, isMs |-> FALSE, polymorphic |-> FALSE, bases |-> <<>>,
     primaryBase |-> 0, hasOwnVFPtr |-> FALSE, hasOwnVBPtr |-> FALSE,
     numVFPtrs |-> 0, fields |-> <<>>]

\* The cursors: isDeclaration is clang_isDeclaration(cursor.kind); decl is what
\* getCursorDecl returns ("null", a declaration that is no record, or a record).
Cursors ==
    {[kind |-> "cursor", isDeclaration |-> d, decl |-> k, hasDefinition |-> FALSE,
      record |-> NoRecord] :
        d \in BOOLEAN, k \in {"null", "other", "record"}}
    \cup
    {[kind |-> "cursor", isDeclaration |-> d, decl |-> "record",
      hasDefinition |-> TRUE, record |-> r] : d \in BOOLEAN, r \in RecordDecls}

\* layout.getVBPtrOffset(): behind the vfptr, if the class owns one
VBPtrOffset(r) == IF r.hasOwnVFPtr THEN 8 ELSE 0

\* ASTRecordLayout: getSize, getAlignment, getNonVirtualSize, getNonVirtualAlignment
LayoutSize(r) == 8 * (1 + Len(r.bases) + Len(r.fields))

LayoutNonVirtualSize(r) ==
    8 * (1 + Len(SelectSeq(r.bases, LAMBDA b : ~b.isVirtual)) + Len(r.fields))

\* MicrosoftVTableContext::getVFPtrOffsets: FullOffsetInMDC of the k-th vfptr
VFPtrOffset(r, k) == 8 * (k - 1)

\* MicrosoftVTableContext::getVFTableLayout(cxxRecord, offset)
VFTableLayout(r, offset) ==
    [components |-> <<[kind |-> "RTTI", decl |-> 1, offset |-> 0],
                      [kind |-> "FunctionPointer", decl |-> 10 + offset, offset |-> 0]>>]

\* ItaniumVTableContext::getVTableLayout(cxxRecord)
ItaniumVTableLayout(r) ==
    [components |-> <<[kind |-> "OffsetToTop", decl |-> NULL, offset |-> 0],
                      [kind |-> "RTTI", decl |-> 1, offset |-> 0],
                      [kind |-> "FunctionPointer", decl |-> 10, offset |-> 0]>>]

-----------------------------------------------------------------------------
(* pathogen_GetRecordLayout *)

\* the state threaded through the body: the memory and the log of AddField calls
DoAddField(st, kind, offset, name, type) ==
    [m |-> AddField(st.m, kind, offset, name, type),
     calls |-> Append(st.calls, [offset |-> offset, kind |-> kind])]

DoAddVTableLayout(st, layout) == [st EXCEPT !.m = AddVTableLayout(st.m, layout)]

\* a variant with two independent tests instead of if / else if
AddVTablePointerBothTests(st, r) ==
    LET st1 == IF isDynamicClass(r) /\ r.primaryBase = 0 /\ ~IsMsLayout(r)
               THEN DoAddField(st, "VTablePtr", 0, "vtable_pointer", "void**")
               ELSE st
    IN  IF r.hasOwnVFPtr
        THEN DoAddField(st1, "VTablePtr", 0, "vftable_pointer", "void**")
        ELSE st1

\* a variant without the Itanium branch
AddVTablePointerOwnVFPtrOnly(st, r) ==
    IF r.hasOwnVFPtr /\ IsMsLayout(r)
    THEN DoAddField(st, "VTablePtr", 0, "vftable_pointer", "void**")
    ELSE st

\* a variant whose first test does not look at the ABI
AddVTablePointerIgnoringAbi(st, r) ==
    IF isDynamicClass(r) /\ r.primaryBase = 0
    THEN DoAddField(st, "VTablePtr", 0, "vtable_pointer", "void**")
    ELSE IF r.hasOwnVFPtr
    THEN DoAddField(st, "VTablePtr", 0, "vftable_pointer", "void**")
    ELSE st

\* "Add vtable pointer"
AddVTablePointer(st, r) ==
    IF isDynamicClass(r) /\ r.primaryBase = 0 /\ ~IsMsLayout(r)
    THEN DoAddField(st, "VTablePtr", 0, "vtable_pointer", "void**")
    ELSE IF r.hasOwnVFPtr
    THEN DoAddField(st, "VTablePtr", 0, "vftable_pointer", "void**")
    ELSE st

\* "Add non-virtual bases": the loop over cxxRecord->bases(), from index i on
RECURSIVE AddNonVirtualBases(_, _, _)
AddNonVirtualBases(st, r, i) ==
    IF i > Len(r.bases) THEN st
    ELSE IF r.bases[i].isVirtual THEN AddNonVirtualBases(st, r, i + 1)
    ELSE LET isPrimary == (i = r.primaryBase)
             st1 == DoAddField(st, "NonVirtualBase", r.bases[i].offset,
                               IF isPrimary THEN "primary_base" ELSE "base", "base")
             field == LastField(st1.m)
         IN  AddNonVirtualBases(
                [st1 EXCEPT !.m.fieldHeap[field].IsPrimaryBase = isPrimary], r, i + 1)

\* "Vbptr - Microsoft C++ ABI"
AddVBPtr(st, r) ==
    IF r.hasOwnVBPtr
    THEN DoAddField(st, "VirtualBaseTablePtr", VBPtrOffset(r), "vbtable_pointer", "void*")
    ELSE st

\* context.toCharUnitsFromBits(bits).getQuantity(), for 8-bit chars
toCharUnitsFromBits(bits) == bits \div 8

\* "Add normal fields": the loop over the record's fields, from fieldIndex i on
RECURSIVE AddNormalFields(_, _, _)
AddNormalFields(st, r, i) ==
    IF i > Len(r.fields) THEN st
    ELSE LET offsetBits == r.fields[i].bits
             offset == toCharUnitsFromBits(offsetBits)
             st1 == DoAddField(st, "Normal", offset, "field", "field")
             pathogenField == LastField(st1.m)
             st2 == [st1 EXCEPT !.m.fieldHeap[pathogenField].FieldDeclaration = i]
             st3 == IF r.fields[i].isBitField
                    THEN [st2 EXCEPT
                            !.m.fieldHeap[pathogenField].IsBitField = TRUE,
                            !.m.fieldHeap[pathogenField].BitFieldStart = offsetBits - 8 * offset,
                            !.m.fieldHeap[pathogenField].BitFieldWidth = r.fields[i].width]
                    ELSE st2
         IN  AddNormalFields(st3, r, i + 1)

\* a variant that places the vtordisp slot at the base's own offset
RECURSIVE AddVirtualBasesDispAtBase(_, _, _)
AddVirtualBasesDispAtBase(st, r, i) ==
    IF i > Len(r.bases) THEN st
    ELSE IF ~r.bases[i].isVirtual THEN AddVirtualBasesDispAtBase(st, r, i + 1)
    ELSE LET offset == r.bases[i].offset
             isPrimary == (i = r.primaryBase)
             st1 == DoAddField(st, "VirtualBase", offset,
                               IF isPrimary THEN "primary_virtual_base" ELSE "virtual_base",
                               "base")
             field == LastField(st1.m)
             st2 == [st1 EXCEPT !.m.fieldHeap[field].IsPrimaryBase = isPrimary]
             st3 == IF r.bases[i].hasVtorDisp
                    THEN DoAddField(st2, "VTorDisp", offset, "vtordisp", "base")
                    ELSE st2
         IN  AddVirtualBasesDispAtBase(st3, r, i + 1)

\* "Add virtual bases": the loop over cxxRecord->vbases(), from index i of bases on
RECURSIVE AddVirtualBases(_, _, _)
AddVirtualBases(st, r, i) ==
    IF i > Len(r.bases) THEN st
    ELSE IF ~r.bases[i].isVirtual THEN AddVirtualBases(st, r, i + 1)
    ELSE LET offset == r.bases[i].offset
             st1 == IF r.bases[i].hasVtorDisp
                    THEN DoAddField(st, "VTorDisp", offset - 4, "vtordisp", "base")
                    ELSE st
             isPrimary == (i = r.primaryBase)
             st2 == DoAddField(st1, "VirtualBase", offset,
                               IF isPrimary THEN "primary_virtual_base" ELSE "virtual_base",
                               "base")
             field == LastField(st2.m)
         IN  AddVirtualBases(
                [st2 EXCEPT !.m.fieldHeap[field].IsPrimaryBase = isPrimary], r, i + 1)

\* the loop over getVFPtrOffsets(cxxRecord), from the k-th offset on
RECURSIVE AddVFTables(_, _, _)
AddVFTables(st, r, k) ==
    IF k > r.numVFPtrs THEN st
    ELSE AddVFTables(DoAddVTableLayout(st, VFTableLayout(r, VFPtrOffset(r, k))), r, k + 1)

\* context.getVTableContext()->isMicrosoft(): the context is built for the target's ABI
VTableContextIsMicrosoft(r) == r.isMs

\* "Add VTable layouts"
AddVTableLayouts(st, r) ==
    IF r.isCxx /\ isDynamicClass(r)
    THEN IF VTableContextIsMicrosoft(r)
         THEN AddVFTables(st, r, 1)
         ELSE DoAddVTableLayout(st, ItaniumVTableLayout(r))
    ELSE st

\* the members the body assigns before the slots are added
LayoutHeader(r) ==
    [Size |-> LayoutSize(r), Alignment |-> 8, IsCppRecord |-> r.isCxx,
     NonVirtualSize |-> IF r.isCxx THEN LayoutNonVirtualSize(r) ELSE 0,
     NonVirtualAlignment |-> IF r.isCxx THEN 8 ELSE 0]

\* a variant without the test for a definition
CursorIsRecord(c) ==
    /\ c.isDeclaration
    /\ c.decl = "record"

\* the three early returns: what the checks let through
CursorIsDefinedRecord(c) ==
    /\ c.isDeclaration
    /\ c.decl = "record"
    /\ c.hasDefinition

GetRecordLayout(c) ==
    IF ~CursorIsDefinedRecord(c)
    THEN [ret |-> "null", allocs |-> 0, header |-> NoHeader,
          st |-> [m |-> EmptyMem, calls |-> <<>>]]
    ELSE LET r == c.record
             st0 == [m |-> EmptyMem, calls |-> <<>>]
             st1 == IF r.isCxx
                    THEN AddVBPtr(AddNonVirtualBases(AddVTablePointer(st0, r), r, 1), r)
                    ELSE st0
             st2 == AddNormalFields(st1, r, 1)
             st3 == IF r.isCxx THEN AddVirtualBases(st2, r, 1) ELSE st2
             st4 == AddVTableLayouts(st3, r)
         IN  [ret |-> "layout", allocs |-> 1, header |-> LayoutHeader(r), st |-> st4]

InitLayout ==
    /\ pc = "idle"
    /\ FirstField = NULL
    /\ FirstVTable = NULL
    /\ fieldHeap = <<>>
    /\ vtableHeap = <<>>
    /\ entriesHeap = <<>>
    /\ badRead = FALSE
    /\ header = NoHeader
    /\ layoutAllocs = 0
    /\ layoutFrees = 0
    /\ ret = "none"
    /\ cursor = NoCursor
    /\ calls = <<>>
    /\ cv = NoConst
    /\ ab = NoAbi
    /\ mc = NoMacros
    /\ OthersIdle

pathogen_GetRecordLayout ==
    /\ pc = "idle"
    /\ \E c \in Cursors :
          LET res == GetRecordLayout(c) IN
          /\ cursor' = c
          /\ ret' = res.ret
          /\ layoutAllocs' = layoutAllocs + res.allocs
          /\ header' = res.header
          /\ SetMem(res.st.m)
          /\ calls' = res.st.calls
    /\ pc' = "built"
    /\ UNCHANGED <<layoutFrees, cv, ab, mc, qr, tp, de, cg>>

NextLayout == pathogen_GetRecordLayout \/ pathogen_DeleteRecordLayout

SpecLayout == InitLayout /\ [][NextLayout]_vars

-----------------------------------------------------------------------------
(* 64-bit words, as sequences of 64 bits with the least significant first *)

WordBits == 64

ZeroWord == [i \in 1..WordBits |-> 0]

\* the w low bits of the two's complement representation of n, for |n| < 2^16
BitOfNat(n, i) == IF i > 16 THEN 0 ELSE (n \div (2 ^ (i - 1))) % 2

BitsOfInt(n, w) ==
    [i \in 1..w |-> IF n >= 0 THEN BitOfNat(n, i) ELSE 1 - BitOfNat((0 - n) - 1, i)]

\* APInt::U.VAL of a value of at most 64 bits: the unused high bits are clear
WordOf(bits) == [i \in 1..WordBits |-> IF i <= Len(bits) THEN bits[i] ELSE 0]

ShiftLeft(x, n) == [i \in 1..WordBits |-> IF i > n THEN x[i - n] ELSE 0]

ArithmeticShiftRight(x, n) ==
    [i \in 1..WordBits |-> IF i + n <= WordBits THEN x[i + n] ELSE x[WordBits]]

\* llvm::SignExtend64(X, B): int64_t(X << (64 - B)) >> (64 - B)
SignExtend64(x, b) == ArithmeticShiftRight(ShiftLeft(x, WordBits - b), WordBits - b)

\* APInt::getSExtValue() and APInt::getZExtValue() of a single-word value
getSExtValue(v) == SignExtend64(WordOf(v.bits), v.width)

getZExtValue(v) == WordOf(v.bits)

\* APSInt::getExtValue(): isSigned() ? getSExtValue() : getZExtValue()
getExtValue(v) == IF v.isSigned THEN getSExtValue(v) ELSE getZExtValue(v)

-----------------------------------------------------------------------------
(* The constant evaluator: pathogen_ComputeConstantValue *)

\* bytes of the string literals the model folds
MaxStringChars == 2

\* integer widths and values the model folds
IntWidths == {1, 8, 16, 32, 64}

IntValues == {0, 1, 127, 200, 0 - 1, 0 - 2, 0 - 128, 0 - 201}

APSInts ==
    {[kind |-> "Int", width |-> w, isSigned |-> sg, bits |-> BitsOfInt(n, w)] :
        w \in IntWidths, sg \in BOOLEAN, n \in IntValues}

\* APFloat values: the semantics' size in bits and the bit pattern
APFloats ==
    {[kind |-> "Float", width |-> w, bits |-> BitsOfInt(n, w)] :
        w \in {32, 64}, n \in {0, 0 - 1}}

\* enum PathogenStringConstantKind, equal to StringLiteral::StringKind
StringKindAscii == 0
StringKindWideChar == 1
StringKindUtf8 == 2
StringKindUtf16 == 3
StringKindUtf32 == 4
\* WideCharBit = 1 << 31, as the int that SubKind holds
WideCharBit == (0 - (2 ^ 30)) * 2

\* StringLiteral::getCharByteWidth() for each kind; wchar_t depends on the target
CharByteWidths(k) ==
    IF k = StringKindWideChar THEN {1, 2, 4}
    ELSE IF k = StringKindUtf16 THEN {2}
    ELSE IF k = StringKindUtf32 THEN {4}
    ELSE {1}

\* the bytes of the literal "ab..." of n characters of cw bytes each (little endian)
LiteralBytes(n, cw) ==
    [i \in 1..(n * cw) |-> IF (i - 1) % cw = 0 THEN 97 + ((i - 1) \div cw) ELSE 0]

StringLiterals ==
    {[kind |-> "LValue", isNullPointer |-> FALSE, base |-> "StringLiteral",
      stringKind |-> k, charByteWidth |-> cw, bytes |-> LiteralBytes(n, cw)] :
        k \in {StringKindAscii, StringKindWideChar, StringKindUtf8, StringKindUtf16,
               StringKindUtf32},
        cw \in {1, 2, 4}, n \in 0..MaxStringChars}

OtherValues ==
    {[kind |-> "LValue", isNullPointer |-> TRUE, base |-> "None"],
     [kind |-> "LValue", isNullPointer |-> FALSE, base |-> "OtherExpr"],
     [kind |-> "LValue", isNullPointer |-> FALSE, base |-> "ValueDecl"],
     [kind |-> "Struct"]}

APValues ==
    APSInts \cup APFloats \cup OtherValues
    \cup {v \in StringLiterals : v.charByteWidth \in CharByteWidths(v.stringKind)}

\* APValue::getKind() as a number: Int is 2, Float 3, LValue 7 and Struct 10
getKind(v) ==
    IF v.kind = "Int" THEN 2
    ELSE IF v.kind = "Float" THEN 3
    ELSE IF v.kind = "LValue" THEN 7
    ELSE 10

\* What Expr::EvaluateAsRValue can answer for an expression: a failure (with or
\* without issues the engine would diagnose) or a folded value with its flags.
Evaluations ==
    {[hasConstantValue |-> FALSE, issues |-> d, HasSideEffects |-> FALSE,
      HasUndefinedBehavior |-> FALSE, Val |-> [kind |-> "None"]] : d \in 0..1}
    \cup
    {[hasConstantValue |-> TRUE, issues |-> 0, HasSideEffects |-> se,
      HasUndefinedBehavior |-> ub, Val |-> v] :
        se \in BOOLEAN, ub \in BOOLEAN, v \in APValues}

NoEvaluation ==
    [hasConstantValue |-> FALSE, issues |-> 0, HasSideEffects |-> FALSE,
     HasUndefinedBehavior |-> FALSE, Val |-> [kind |-> "None"]]

\* The cursors of the evaluator: class is "decl" (clang_isDeclaration), "expr"
\* (clang_isExpression) or "other"; decl is what getCursorDecl gives.
ConstCursors ==
    {[class |-> "other", decl |-> "null", hasInit |-> FALSE, eval |-> NoEvaluation]}
    \cup
    {[class |-> "decl", decl |-> d, hasInit |-> FALSE, eval |-> NoEvaluation] :
        d \in {"null", "other", "var"}}
    \cup
    {[class |-> c, decl |-> IF c = "decl" THEN "var" ELSE "null", hasInit |-> c = "decl",
      eval |-> e] : c \in {"decl", "expr"}, e \in Evaluations}

\* Expr::EvalResult result: EvalStatus() leaves Diag null, and the body never
\* points it at storage, so the engine has nowhere to add its notes.
EvaluateAsRValue(e) ==
    [hasConstantValue |-> e.hasConstantValue, Diag |-> NULL, DiagSize |-> 0,
     HasSideEffects |-> e.HasSideEffects, HasUndefinedBehavior |-> e.HasUndefinedBehavior,
     Val |-> e.Val]

\* the caller's *info and *error before the call
CallerInfo ==
    [HasSideEffects |-> TRUE, HasUndefinedBehavior |-> TRUE, Kind |-> "Stale",
     SubKind |-> 0 - 1, Value |-> <<"int", ZeroWord>>, assigned |-> {}]

CallerError == [value |-> "stale", writes |-> 0]

NotAVariableMessage == "The cursor is not a variable declaration or expression."

\* a variant whose final else returns without a message
SelectExpressionSilentElse(c) ==
    IF c.class = "decl"
    THEN IF c.decl # "var" THEN [expr |-> FALSE, setError |-> TRUE]
         ELSE IF ~c.hasInit THEN [expr |-> FALSE, setError |-> FALSE]
         ELSE [expr |-> TRUE, setError |-> FALSE]
    ELSE IF c.class = "expr" THEN [expr |-> TRUE, setError |-> FALSE]
    ELSE [expr |-> FALSE, setError |-> FALSE]

\* a variant that reports a missing initializer as an error
SelectExpressionNoInitError(c) ==
    IF c.class = "decl"
    THEN IF c.decl # "var" THEN [expr |-> FALSE, setError |-> TRUE]
         ELSE IF ~c.hasInit THEN [expr |-> FALSE, setError |-> TRUE]
         ELSE [expr |-> TRUE, setError |-> FALSE]
    ELSE IF c.class = "expr" THEN [expr |-> TRUE, setError |-> FALSE]
    ELSE [expr |-> FALSE, setError |-> TRUE]

\* "Get the expression": whether an expression was found, and whether the
\* not-a-variable message was stored in *error
SelectExpression(c) ==
    IF c.class = "decl"
    THEN IF c.decl # "var" THEN [expr |-> FALSE, setError |-> TRUE]
         ELSE IF ~c.hasInit THEN [expr |-> FALSE, setError |-> FALSE]
         ELSE [expr |-> TRUE, setError |-> FALSE]
    ELSE IF c.class = "expr" THEN [expr |-> TRUE, setError |-> FALSE]
    ELSE [expr |-> FALSE, setError |-> TRUE]

WriteError(error, message) == [value |-> message, writes |-> error.writes + 1]

AllInfoFields == {"HasSideEffects", "HasUndefinedBehavior", "Kind", "SubKind", "Value"}

\* the three members every kind branch stores
KindFields == {"Kind", "SubKind", "Value"}

\* a variant without the memset and without the Value = 0 default
InfoDefaultValueUntouched(result) ==
    [HasSideEffects |-> result.HasSideEffects,
     HasUndefinedBehavior |-> result.HasUndefinedBehavior,
     Kind |-> "Unknown", SubKind |-> getKind(result.Val), Value |-> <<"int", ZeroWord>>,
     assigned |-> AllInfoFields \ {"Value"}]

\* memset(info, 0, sizeof(*info)), then the flags, then the Unknown default
InfoDefault(result) ==
    [HasSideEffects |-> result.HasSideEffects,
     HasUndefinedBehavior |-> result.HasUndefinedBehavior,
     Kind |-> "Unknown", SubKind |-> getKind(result.Val), Value |-> <<"int", ZeroWord>>,
     assigned |-> AllInfoFields]

\* a variant that always takes the zero-extended value
FoldedIntegerZExt(info, intValue) ==
    [info EXCEPT !.Kind = IF intValue.isSigned THEN "SignedInteger" ELSE "UnsignedInteger",
                 !.SubKind = intValue.width,
                 !.Value = <<"int", getZExtValue(intValue)>>,
                 !.assigned = @ \cup KindFields]

\* the value.isInt() branch
FoldedInteger(info, intValue) ==
    [info EXCEPT !.Kind = IF intValue.isSigned THEN "SignedInteger" ELSE "UnsignedInteger",
                 !.SubKind = intValue.width,
                 !.Value = <<"int", getExtValue(intValue)>>,
                 !.assigned = @ \cup KindFields]

\* the value.isFloat() branch
FoldedFloat(info, floatValue) ==
    [info EXCEPT !.Kind = "FloatingPoint", !.SubKind = floatValue.width,
                 !.Value = <<"int", WordOf(floatValue.bits)>>,
                 !.assigned = @ \cup KindFields]

\* the value.isNullPointer() branch
FoldedNullPointer(info) ==
    [info EXCEPT !.Kind = "NullPointer", !.SubKind = 0, !.Value = <<"int", ZeroWord>>,
                 !.assigned = @ \cup KindFields]

\* a variant that reports the literal's own kind, without the re-tagging
StringSubKindAsDeclared(lit) == lit.stringKind

\* the re-tagging of a wide literal by its character width
StringSubKind(lit) ==
    IF lit.stringKind = StringKindWideChar
    THEN IF lit.charByteWidth = 1 THEN StringKindUtf8 + WideCharBit
         ELSE IF lit.charByteWidth = 2 THEN StringKindUtf16 + WideCharBit
         ELSE IF lit.charByteWidth = 4 THEN StringKindUtf32 + WideCharBit
         ELSE StringKindWideChar
    ELSE lit.stringKind

\* the string literal branch: the tag, the malloc'ed copy and the pointer to it
FoldedString(info, strings, lit) ==
    LET string == [SizeBytes |-> Len(lit.bytes),
                   bytes |-> [i \in 1..Len(lit.bytes) |-> lit.bytes[i]], frees |-> 0]
    IN  [info |-> [info EXCEPT !.Kind = "String", !.SubKind = StringSubKind(lit),
                               !.Value = <<"ptr", Len(strings) + 1>>,
                               !.assigned = @ \cup KindFields],
         strings |-> Append(strings, string)]

\* a variant whose memset precedes the tests, so that a failed call clears *info
ReturnFalseInfoCleared(info, strings, error) ==
    [ret |-> FALSE,
     info |-> [info EXCEPT !.HasSideEffects = FALSE, !.HasUndefinedBehavior = FALSE,
                           !.Kind = "Unknown", !.SubKind = 0, !.assigned = AllInfoFields],
     strings |-> strings, error |-> error]

\* `return false`: every one of them precedes the memset of *info and the malloc
ReturnFalse(info, strings, error) ==
    [ret |-> FALSE, info |-> info, strings |-> strings, error |-> error]

ComputeConstantValue(c, info, error, strings) ==
    LET sel == SelectExpression(c) IN
    IF ~sel.expr
    THEN ReturnFalse(info, strings,
                     IF sel.setError THEN WriteError(error, NotAVariableMessage) ELSE error)
    ELSE LET result == EvaluateAsRValue(c.eval) IN
         IF ~result.hasConstantValue
         THEN ReturnFalse(info, strings,
                          IF result.Diag # NULL /\ result.DiagSize > 0
                          THEN WriteError(error, "EvaluateAsRValue returned diagnostics.")
                          ELSE error)
         ELSE LET info0 == InfoDefault(result)
                  value == result.Val
              IN  IF value.kind = "Int"
                  THEN [ret |-> TRUE, info |-> FoldedInteger(info0, value),
                        strings |-> strings, error |-> error]
                  ELSE IF value.kind = "Float"
                  THEN [ret |-> TRUE, info |-> FoldedFloat(info0, value),
                        strings |-> strings, error |-> error]
                  ELSE IF value.kind = "LValue" /\ value.isNullPointer
                  THEN [ret |-> TRUE, info |-> FoldedNullPointer(info0),
                        strings |-> strings, error |-> error]
                  ELSE IF value.kind = "LValue" /\ value.base = "StringLiteral"
                  THEN LET f == FoldedString(info0, strings, value)
                       IN  [ret |-> TRUE, info |-> f.info, strings |-> f.strings,
                            error |-> error]
                  ELSE [ret |-> TRUE, info |-> info0, strings |-> strings, error |-> error]

\* repeated calls of the cleanup operation the model follows
MaxDeletes == 2

IsZeroValue(v) == v[1] = "int" /\ v[2] = ZeroWord

\* a variant that frees the buffer but leaves Value pointing at it
DeletePathogenConstantValueInfoKeepValue(infoPointer, info, strings) ==
    IF infoPointer # NULL /\ info.Kind = "String" /\ ~IsZeroValue(info.Value)
    THEN [info |-> info,
          strings |-> [strings EXCEPT ![info.Value[2]].frees = @ + 1]]
    ELSE [info |-> info, strings |-> strings]

\* a variant without the test of the pointer: a null argument stands for the
\* structure the caller filled last
DeletePathogenConstantValueInfoIgnoringNull(infoPointer, info, strings) ==
    IF info.Kind = "String" /\ ~IsZeroValue(info.Value)
    THEN [info |-> [info EXCEPT !.Value = <<"int", ZeroWord>>],
          strings |-> [strings EXCEPT ![info.Value[2]].frees = @ + 1]]
    ELSE [info |-> info, strings |-> strings]

\* the address of the caller's PathogenConstantValueInfo
InfoAddress == 1

\* pathogen_DeletePathogenConstantValueInfo(infoPointer), where info is the
\* structure at that address when the pointer is not null
DeletePathogenConstantValueInfo(infoPointer, info, strings) ==
    IF infoPointer # NULL /\ info.Kind = "String" /\ ~IsZeroValue(info.Value)
    THEN [info |-> [info EXCEPT !.Value = <<"int", ZeroWord>>],
          strings |-> [strings EXCEPT ![info.Value[2]].frees = @ + 1]]
    ELSE [info |-> info, strings |-> strings]

\* a PathogenConstantString an earlier call returned, which its caller still holds
EarlierString == [SizeBytes |-> 1, bytes |-> <<122>>, frees |-> 0]

InitConst ==
    /\ pc = "idle"
    /\ FirstField = NULL
    /\ FirstVTable = NULL
    /\ fieldHeap = <<>>
    /\ vtableHeap = <<>>
    /\ entriesHeap = <<>>
    /\ badRead = FALSE
    /\ header = NoHeader
    /\ layoutAllocs = 0
    /\ layoutFrees = 0
    /\ ret = "none"
    /\ cursor = NoCursor
    /\ calls = <<>>
    /\ \E earlier \in {<<>>, <<EarlierString>>} :
          cv = [phase |-> "idle", cursor |-> NoCursor, ret |-> FALSE, info |-> CallerInfo,
                error |-> CallerError, strings |-> earlier, deletes |-> 0,
                nullDeletes |-> 0]
    /\ ab = NoAbi
    /\ mc = NoMacros
    /\ OthersIdle

LayoutUnchanged ==
    UNCHANGED <<pc, FirstField, FirstVTable, fieldHeap, vtableHeap, entriesHeap, badRead,
                header, layoutAllocs, layoutFrees, ret, cursor, calls>>

pathogen_ComputeConstantValue ==
    /\ cv.phase = "idle"
    /\ \E c \in ConstCursors :
          LET res == ComputeConstantValue(c, cv.info, cv.error, cv.strings) IN
          cv' = [phase |-> "returned", cursor |-> c, ret |-> res.ret, info |-> res.info,
                 error |-> res.error, strings |-> res.strings, deletes |-> 0,
                 nullDeletes |-> 0]
    /\ LayoutUnchanged
    /\ UNCHANGED <<ab, mc, qr, tp, de, cg>>

\* the call with the address of the caller's structure, or with a null pointer
pathogen_DeletePathogenConstantValueInfo ==
    /\ cv.phase = "returned"
    /\ \E infoPointer \in {NULL, InfoAddress} :
          /\ IF infoPointer = NULL THEN cv.nullDeletes < MaxDeletes
                                   ELSE cv.deletes < MaxDeletes
          /\ LET res == DeletePathogenConstantValueInfo(infoPointer, cv.info, cv.strings) IN
                cv' = [cv EXCEPT !.info = res.info, !.strings = res.strings,
                                 !.deletes = IF infoPointer = NULL THEN @ ELSE @ + 1,
                                 !.nullDeletes = IF infoPointer = NULL THEN @ + 1 ELSE @]
    /\ LayoutUnchanged
    /\ UNCHANGED <<ab, mc, qr, tp, de, cg>>

NextConst == pathogen_ComputeConstantValue \/ pathogen_DeletePathogenConstantValueInfo

SpecConst == InitConst /\ [][NextConst]_vars

-----------------------------------------------------------------------------
(* The function ABI classifier: pathogen_CreateArgumentInfo,                *)
(* pathogen_CreateArrangedFunction and the two queries that call it         *)

\* the Extra values (offsets, alignments, indices) range over 0 .. MaxExtra
MaxExtra == 1
\* arguments of an arranged function
MaxArgs == 2

\* enum class PathogenArgumentKind, equal to ABIArgInfo::Kind
PathogenArgumentKind ==
    {"Direct", "Extend", "Indirect", "IndirectAliased", "Ignore", "Expand",
     "CoerceAndExpand", "InAlloca"}

ArgumentFlagNames ==
    {"HasCoerceToTypeType", "HasPaddingType", "HasUnpaddedCoerceAndExpandType",
     "PaddingInRegister", "IsInAllocaSRet", "IsIndirectByVal", "IsIndirectRealign",
     "IsSRetAfterThis", "IsInRegister", "CanBeFlattened", "IsSignExtended"}

\* enum class PathogenArgumentFlags : uint16_t, the bit of each flag
PathogenArgumentFlags(flag) ==
    CASE flag = "None" -> 0
      [] flag = "HasCoerceToTypeType" -> 1
      [] flag = "HasPaddingType" -> 2
      [] flag = "HasUnpaddedCoerceAndExpandType" -> 4
      [] flag = "PaddingInRegister" -> 8
      [] flag = "IsInAllocaSRet" -> 16
      [] flag = "IsIndirectByVal" -> 32
      [] flag = "IsIndirectRealign" -> 64
      [] flag = "IsSRetAfterThis" -> 128
      [] flag = "IsInRegister" -> 256
      [] flag = "CanBeFlattened" -> 512
      [] flag = "IsSignExtended" -> 1024

\* the kinds the comments of PathogenArgumentFlags require for each flag
RequiredKinds(flag) ==
    CASE flag = "HasCoerceToTypeType" -> {"Direct", "Extend", "CoerceAndExpand"}
      [] flag = "HasPaddingType" -> {"Direct", "Extend", "Indirect", "Expand"}
      [] flag = "HasUnpaddedCoerceAndExpandType" -> {"CoerceAndExpand"}
      [] flag = "PaddingInRegister" -> PathogenArgumentKind
      [] flag = "IsInAllocaSRet" -> {"InAlloca"}
      [] flag = "IsIndirectByVal" -> {"Indirect"}
      [] flag = "IsIndirectRealign" -> {"Indirect"}
      [] flag = "IsSRetAfterThis" -> {"Indirect"}
      [] flag = "IsInRegister" -> {"Direct", "Extend", "Indirect"}
      [] flag = "CanBeFlattened" -> {"Direct"}
      [] flag = "IsSignExtended" -> {"Extend"}

\* whether the bit is set in the flags word
HasFlag(flags, bit) == (flags \div bit) % 2 = 1

\* operator| of PATHOGEN_FLAGS, for a single bit b
FlagOr(flags, bit) == IF HasFlag(flags, bit) THEN flags ELSE flags + bit

\* flags |= bit when the condition holds
FlagOrIf(flags, condition, bit) == IF condition THEN FlagOr(flags, bit) ELSE flags

\* an ABIArgInfo of the kind with nothing set; a type pointer is NULL or 1
ABIArgInfoOfKind(kind) ==
    [kind |-> kind, coerceToType |-> NULL, paddingType |-> NULL,
     unpaddedCoerceAndExpandType |-> NULL, inReg |-> FALSE, canBeFlattened |-> FALSE,
     signExt |-> FALSE, indirectByVal |-> FALSE, indirectRealign |-> FALSE,
     sretAfterThis |-> FALSE, inAllocaSRet |-> FALSE, directOffset |-> 0,
     indirectAlign |-> 0, indirectAddrSpace |-> 0, inAllocaFieldIndex |-> 0]

TypePointers == {NULL, 1}

\* the ABIArgInfo values of each kind: the members the kind can carry vary
ABIArgInfos ==
    {[ABIArgInfoOfKind(k) EXCEPT !.coerceToType = ct, !.paddingType = pt, !.inReg = r,
                                 !.canBeFlattened = (k = "Direct" /\ b),
                                 !.signExt = (k = "Extend" /\ b), !.directOffset = x] :
        k \in {"Direct", "Extend"}, ct \in TypePointers, pt \in TypePointers,
        r \in BOOLEAN, b \in BOOLEAN, x \in 0..MaxExtra}
    \cup
    {[ABIArgInfoOfKind("Indirect") EXCEPT !.paddingType = pt, !.inReg = r,
                                          !.indirectByVal = bv, !.indirectRealign = ra,
                                          !.sretAfterThis = sr, !.indirectAlign = x] :
        pt \in TypePointers, r \in BOOLEAN, bv \in BOOLEAN, ra \in BOOLEAN,
        sr \in BOOLEAN, x \in 0..MaxExtra}
    \cup
    {[ABIArgInfoOfKind("IndirectAliased") EXCEPT !.paddingType = pt,
                                                 !.indirectRealign = ra,
                                                 !.indirectAlign = x,
                                                 !.indirectAddrSpace = y] :
        pt \in TypePointers, ra \in BOOLEAN, x \in 0..MaxExtra, y \in 0..MaxExtra}
    \cup
    {ABIArgInfoOfKind("Ignore")}
    \cup
    {[ABIArgInfoOfKind("Expand") EXCEPT !.paddingType = pt] : pt \in TypePointers}
    \cup
    {[ABIArgInfoOfKind("CoerceAndExpand") EXCEPT !.coerceToType = ct,
                                                 !.unpaddedCoerceAndExpandType = ut] :
        ct \in TypePointers, ut \in TypePointers}
    \cup
    {[ABIArgInfoOfKind("InAlloca") EXCEPT !.inAllocaSRet = sr, !.inAllocaFieldIndex = x] :
        sr \in BOOLEAN, x \in 0..MaxExtra}

\* ABIArgInfo::canHaveCoerceToType()
canHaveCoerceToType(info) == info.kind \in {"Direct", "Extend", "CoerceAndExpand"}

\* ABIArgInfo::canHavePaddingType()
canHavePaddingType(info) ==
    info.kind \in {"Direct", "Extend", "Indirect", "IndirectAliased", "Expand"}

\* ABIArgInfo::getPaddingType(): the padding type where the kind can have one
getPaddingType(info) == IF canHavePaddingType(info) THEN info.paddingType ELSE NULL

\* cxtype::MakeCXType(type, translationUnit): the CXType wrapping the type
MakeCXType(type) == <<"CXType", type>>

ArgumentFields == {"Type", "Kind", "Flags", "Extra", "Extra2"}

\* what malloc returns for a PathogenArgumentInfo: every member holds whatever
\* the block held before, here one of two fill patterns
GarbageWords == {0, 205}

UninitializedArgument(g) ==
    [Type |-> <<"CXType", g>>, Kind |-> IF g = 0 THEN "Direct" ELSE "Garbage",
     Flags |-> g, Extra |-> g, Extra2 |-> g, assigned |-> {}]

\* the three tests made before the switch
CommonFlags(info) ==
    FlagOrIf(
        FlagOrIf(
            FlagOrIf(PathogenArgumentFlags("None"),
                     canHaveCoerceToType(info) /\ info.coerceToType # NULL,
                     PathogenArgumentFlags("HasCoerceToTypeType")),
            getPaddingType(info) # NULL, PathogenArgumentFlags("HasPaddingType")),
        info.kind \in {"Direct", "Extend", "Indirect"} /\ info.inReg,
        PathogenArgumentFlags("IsInRegister"))

\* pathogen_CreateArgumentInfo(translationUnit, type, info, output)
CreateArgumentInfo(type, info, output) ==
    LET o == [output EXCEPT !.Type = MakeCXType(type), !.Kind = info.kind,
                            !.Flags = CommonFlags(info), !.Extra = 0,
                            !.assigned = @ \cup {"Type", "Kind", "Flags", "Extra"}]
    IN  CASE info.kind = "Direct" ->
                [o EXCEPT !.Flags = FlagOrIf(@, info.canBeFlattened,
                                             PathogenArgumentFlags("CanBeFlattened")),
                          !.Extra = info.directOffset]
          [] info.kind = "Extend" ->
                [o EXCEPT !.Flags = FlagOrIf(@, info.signExt,
                                             PathogenArgumentFlags("IsSignExtended")),
                          !.Extra = info.directOffset]
          [] info.kind = "Indirect" ->
                [o EXCEPT !.Flags =
                              FlagOrIf(
                                  FlagOrIf(
                                      FlagOrIf(@, info.indirectByVal,
                                               PathogenArgumentFlags("IsIndirectByVal")),
                                      info.indirectRealign,
                                      PathogenArgumentFlags("IsIndirectRealign")),
                                  info.sretAfterThis,
                                  PathogenArgumentFlags("IsSRetAfterThis")),
                          !.Extra = info.indirectAlign]
          [] info.kind = "IndirectAliased" ->
                [o EXCEPT !.Flags = FlagOrIf(@, info.indirectRealign,
                                             PathogenArgumentFlags("IsIndirectRealign")),
                          !.Extra = info.indirectAlign,
                          !.Extra2 = info.indirectAddrSpace,
                          !.assigned = @ \cup {"Extra2"}]
          [] info.kind \in {"Ignore", "Expand"} -> o
          [] info.kind = "CoerceAndExpand" ->
                [o EXCEPT !.Flags = FlagOrIf(@, info.unpaddedCoerceAndExpandType # NULL,
                              PathogenArgumentFlags("HasUnpaddedCoerceAndExpandType"))]
          [] info.kind = "InAlloca" ->
                [o EXCEPT !.Flags = FlagOrIf(@, info.inAllocaSRet,
                                             PathogenArgumentFlags("IsInAllocaSRet")),
                          !.Extra = info.inAllocaFieldIndex]

FunctionFlagNames ==
    {"IsInstanceMethod", "IsChainCall", "IsNoReturn", "IsReturnsRetained",
     "IsNoCallerSavedRegs", "HasRegParm", "IsNoCfCheck", "IsVariadic", "UsesInAlloca",
     "HasExtendedParameterInfo"}

\* enum class PathogenArrangedFunctionFlags : uint16_t, the bit of each flag
PathogenArrangedFunctionFlags(flag) ==
    CASE flag = "None" -> 0
      [] flag = "IsInstanceMethod" -> 1
      [] flag = "IsChainCall" -> 2
      [] flag = "IsNoReturn" -> 4
      [] flag = "IsReturnsRetained" -> 8
      [] flag = "IsNoCallerSavedRegs" -> 16
      [] flag = "HasRegParm" -> 32
      [] flag = "IsNoCfCheck" -> 64
      [] flag = "IsVariadic" -> 128
      [] flag = "UsesInAlloca" -> 256
      [] flag = "HasExtendedParameterInfo" -> 512

\* the ABIArgInfo of the kind with every member the kind carries set
FullABIArgInfo(kind) ==
    LET d == ABIArgInfoOfKind(kind) IN
    CASE kind = "Direct" ->
            [d EXCEPT !.coerceToType = 1, !.paddingType = 1, !.inReg = TRUE,
                      !.canBeFlattened = TRUE, !.directOffset = MaxExtra]
      [] kind = "Extend" ->
            [d EXCEPT !.coerceToType = 1, !.paddingType = 1, !.inReg = TRUE,
                      !.signExt = TRUE, !.directOffset = MaxExtra]
      [] kind = "Indirect" ->
            [d EXCEPT !.paddingType = 1, !.inReg = TRUE, !.indirectByVal = TRUE,
                      !.indirectRealign = TRUE, !.sretAfterThis = TRUE,
                      !.indirectAlign = MaxExtra]
      [] kind = "IndirectAliased" ->
            [d EXCEPT !.paddingType = 1, !.indirectRealign = TRUE,
                      !.indirectAlign = MaxExtra, !.indirectAddrSpace = MaxExtra]
      [] kind = "Ignore" -> d
      [] kind = "Expand" -> [d EXCEPT !.paddingType = 1]
      [] kind = "CoerceAndExpand" ->
            [d EXCEPT !.coerceToType = 1, !.unpaddedCoerceAndExpandType = 1]
      [] kind = "InAlloca" ->
            [d EXCEPT !.inAllocaSRet = TRUE, !.inAllocaFieldIndex = MaxExtra]

\* the argument lists of the functions the model arranges: argument i has the
\* type i and an ABIArgInfo of any kind
ArgumentLists ==
    {[i \in 1..Len(kinds) |-> [type |-> i, info |-> FullABIArgInfo(kinds[i])]] :
        kinds \in SeqsUpTo(PathogenArgumentKind, MaxArgs)}

\* the CGFunctionInfo values: a plain C function and one with every property set
CGFunctionInfos ==
    {[callingConvention |-> IF busy THEN 64 ELSE 0,
      effectiveCallingConvention |-> IF busy THEN 70 ELSE 0,
      astCallingConvention |-> IF busy THEN 1 ELSE 0,
      numRequiredArgs |-> Len(arguments), regParm |-> IF busy THEN 1 ELSE 0,
      arguments |-> arguments, returnType |-> 0, returnInfo |-> returnInfo,
      isInstanceMethod |-> busy, isChainCall |-> busy, isNoReturn |-> busy,
      isReturnsRetained |-> busy, isNoCallerSavedRegs |-> busy, getHasRegParm |-> busy,
      isNoCfCheck |-> busy, isVariadic |-> busy, usesInAlloca |-> busy,
      extParameterInfos |-> IF busy THEN Len(arguments) ELSE 0] :
        busy \in BOOLEAN, arguments \in ArgumentLists,
        returnInfo \in {ABIArgInfoOfKind("Ignore"), FullABIArgInfo("Indirect")}}

NoFunction == [callingConvention |-> 0 - 1]

\* a variant of the loop that fills the descriptors from the last argument
ArgumentDescriptorsReversed(arguments, g) ==
    [i \in 1..Len(arguments) |->
        CreateArgumentInfo(arguments[Len(arguments) + 1 - i].type,
                           arguments[Len(arguments) + 1 - i].info,
                           UninitializedArgument(g))]

\* resultArguments after the loop: one descriptor per argument, in order
ArgumentDescriptors(arguments, g) ==
    [i \in 1..Len(arguments) |->
        CreateArgumentInfo(arguments[i].type, arguments[i].info,
                           UninitializedArgument(g))]

\* "Populate the function flags"
ArrangedFunctionFlags(function) ==
    LET Or(flags, condition, name) ==
            FlagOrIf(flags, condition, PathogenArrangedFunctionFlags(name))
    IN  Or(Or(Or(Or(Or(Or(Or(Or(Or(Or(PathogenArrangedFunctionFlags("None"),
        function.isInstanceMethod, "IsInstanceMethod"),
        function.isChainCall, "IsChainCall"),
        function.isNoReturn, "IsNoReturn"),
        function.isReturnsRetained, "IsReturnsRetained"),
        function.isNoCallerSavedRegs, "IsNoCallerSavedRegs"),
        function.getHasRegParm, "HasRegParm"),
        function.isNoCfCheck, "IsNoCfCheck"),
        function.isVariadic, "IsVariadic"),
        function.usesInAlloca, "UsesInAlloca"),
        function.extParameterInfos > 0, "HasExtendedParameterInfo")

HeaderFields ==
    {"CallingConvention", "EffectiveCallingConvention", "AstCallingConvention", "Flags",
     "RequiredArgumentCount", "ArgumentsPassedInRegisterCount", "ArgumentCount",
     "ReturnInfo"}

\* pathogen_CreateArrangedFunction: the malloc'ed block, header and descriptors.
\* capacity is the number of descriptors the malloc made room for.
CreateArrangedFunction(function, g) ==
    [capacity |-> Len(function.arguments),
     CallingConvention |-> function.callingConvention,
     EffectiveCallingConvention |-> function.effectiveCallingConvention,
     AstCallingConvention |-> function.astCallingConvention,
     Flags |-> ArrangedFunctionFlags(function),
     RequiredArgumentCount |-> function.numRequiredArgs,
     ArgumentsPassedInRegisterCount |-> function.regParm,
     ArgumentCount |-> Len(function.arguments),
     ReturnInfo |-> CreateArgumentInfo(function.returnType, function.returnInfo,
                                       UninitializedArgument(g)),
     Arguments |-> ArgumentDescriptors(function.arguments, g),
     assigned |-> HeaderFields,
     frees |-> 0]

\* the block of an earlier call, which its caller still holds
EarlierFunction == CreateArrangedFunction(CHOOSE f \in CGFunctionInfos : TRUE, 0)

\* the cursors given to pathogen_GetArrangedFunction: class is "decl" for
\* clang_isDeclaration, decl is what the dyn_casts of getCursorDecl tell
FunctionCursors ==
    {[class |-> "other", decl |-> "null", function |-> NoFunction]}
    \cup
    {[class |-> "decl", decl |-> d, function |-> NoFunction] : d \in {"null", "other"}}
    \cup
    {[class |-> "decl", decl |-> d, function |-> f] :
        d \in {"function", "constructor", "destructor"}, f \in CGFunctionInfos}

\* the types given to pathogen_GetArrangedFunctionPointer
FunctionTypes ==
    {[qual |-> q, function |-> NoFunction] : q \in {"null", "other", "noproto"}}
    \cup
    {[qual |-> "proto", function |-> f] : f \in CGFunctionInfos}

\* CodeGenTypes::arrangeGlobalDeclaration(globalDeclaration)
arrangeGlobalDeclaration(c) == c.function

\* CodeGenTypes::arrangeFreeFunctionType(functionType)
arrangeFreeFunctionType(t) == t.function

\* pathogen_GetArrangedFunction: whether a function is arranged for the cursor
CursorIsFunction(c) ==
    c.class = "decl" /\ c.decl \in {"constructor", "destructor", "function"}

\* pathogen_GetArrangedFunctionPointer: whether a function is arranged for the type
TypeIsFunctionProto(t) == t.qual = "proto"

\* pathogen_DisposeArrangedFunction(function): free(function), a no-op for null
DisposeArrangedFunction(blocks, function) ==
    IF function = NULL THEN blocks
    ELSE [blocks EXCEPT ![function].frees = @ + 1]

InitAbi ==
    /\ pc = "idle"
    /\ FirstField = NULL
    /\ FirstVTable = NULL
    /\ fieldHeap = <<>>
    /\ vtableHeap = <<>>
    /\ entriesHeap = <<>>
    /\ badRead = FALSE
    /\ header = NoHeader
    /\ layoutAllocs = 0
    /\ layoutFrees = 0
    /\ ret = "none"
    /\ cursor = NoCursor
    /\ calls = <<>>
    /\ cv = NoConst
    /\ mc = NoMacros
    /\ OthersIdle
    /\ \E earlier \in {<<>>, <<EarlierFunction>>} :
          ab = [phase |-> "idle", input |-> NoCursor, function |-> NoFunction,
                result |-> NULL, blocks |-> earlier,
                output |-> UninitializedArgument(0)]

AbiOthersUnchanged ==
    UNCHANGED <<pc, FirstField, FirstVTable, fieldHeap, vtableHeap, entriesHeap, badRead,
                header, layoutAllocs, layoutFrees, ret, cursor, calls, cv, mc, qr, tp, de, cg>>

\* the result of a query that arranges the function, or returns nullptr
Arranged(input, arranges, function, g) ==
    IF arranges
    THEN [ab EXCEPT !.phase = "returned", !.input = input, !.function = function,
                    !.result = Len(ab.blocks) + 1,
                    !.blocks = Append(ab.blocks, CreateArrangedFunction(function, g))]
    ELSE [ab EXCEPT !.phase = "returned", !.input = input, !.result = NULL]

\* a call of pathogen_CreateArgumentInfo on its own, on a descriptor that malloc
\* returned
CallCreateArgumentInfo ==
    /\ ab.phase = "idle"
    /\ \E info \in ABIArgInfos, g \in GarbageWords :
          ab' = [ab EXCEPT !.phase = "described", !.input = info,
                           !.output = CreateArgumentInfo(1, info, UninitializedArgument(g))]
    /\ AbiOthersUnchanged

pathogen_GetArrangedFunction ==
    /\ ab.phase = "idle"
    /\ \E c \in FunctionCursors, g \in GarbageWords :
          ab' = Arranged(c, CursorIsFunction(c), arrangeGlobalDeclaration(c), g)
    /\ AbiOthersUnchanged

pathogen_GetArrangedFunctionPointer ==
    /\ ab.phase = "idle"
    /\ \E t \in FunctionTypes, g \in GarbageWords :
          ab' = Arranged(t, TypeIsFunctionProto(t), arrangeFreeFunctionType(t), g)
    /\ AbiOthersUnchanged

pathogen_DisposeArrangedFunction ==
    /\ ab.phase = "returned"
    /\ ab' = [ab EXCEPT !.phase = "disposed",
                        !.blocks = DisposeArrangedFunction(ab.blocks, ab.result)]
    /\ AbiOthersUnchanged

NextAbi ==
    \/ CallCreateArgumentInfo
    \/ pathogen_GetArrangedFunction
    \/ pathogen_GetArrangedFunctionPointer
    \/ pathogen_DisposeArrangedFunction

SpecAbi == InitAbi /\ [][NextAbi]_vars

-----------------------------------------------------------------------------
(* The macro enumerator: pathogen_EnumerateMacros *)

\* identifiers in the identifier table
MaxIdentifiers == 2

\* the keys of the identifier table, in the order the iteration visits them
IdentifierNames == <<"FOO", "BAR", "BAZ", "QUX">>

\* MacroInfo values: an object-like macro, F(x), F(x, y), the C99 variadic
\* F(x, ...) that pastes a comma before __VA_ARGS__, the GNU variadic
\* F(args...), and a built-in such as __LINE__
MacroInfos ==
    {[isFunctionLike |-> FALSE, isBuiltinMacro |-> FALSE, hasCommaPasting |-> FALSE,
      isC99Varargs |-> FALSE, isGNUVarargs |-> FALSE, params |-> <<>>],
     [isFunctionLike |-> TRUE, isBuiltinMacro |-> FALSE, hasCommaPasting |-> FALSE,
      isC99Varargs |-> FALSE, isGNUVarargs |-> FALSE, params |-> <<"x">>],
     [isFunctionLike |-> TRUE, isBuiltinMacro |-> FALSE, hasCommaPasting |-> FALSE,
      isC99Varargs |-> FALSE, isGNUVarargs |-> FALSE, params |-> <<"x", "yy">>],
     [isFunctionLike |-> TRUE, isBuiltinMacro |-> FALSE, hasCommaPasting |-> TRUE,
      isC99Varargs |-> TRUE, isGNUVarargs |-> FALSE, params |-> <<"x", "__VA_ARGS__">>],
     [isFunctionLike |-> TRUE, isBuiltinMacro |-> FALSE, hasCommaPasting |-> FALSE,
      isC99Varargs |-> FALSE, isGNUVarargs |-> TRUE, params |-> <<"args">>],
     [isFunctionLike |-> FALSE, isBuiltinMacro |-> TRUE, hasCommaPasting |-> FALSE,
      isC99Varargs |-> FALSE, isGNUVarargs |-> FALSE, params |-> <<>>]}

\* the MacroInfo of #define FOO(x) x
FunctionLikeOneParameter ==
    [isFunctionLike |-> TRUE, isBuiltinMacro |-> FALSE, hasCommaPasting |-> FALSE,
     isC99Varargs |-> FALSE, isGNUVarargs |-> FALSE, params |-> <<"x">>]

DefMacroDirective(info) == [directive |-> "define", info |-> info]

UndefMacroDirective == [directive |-> "undef"]

\* the macro-directive histories of an identifier, oldest directive first: a
\* definition, a definition later undefined, and a definition undefined and
\* defined again; NULL is an identifier that never named a macro
MacroDirectiveHistories ==
    {<<DefMacroDirective(m)>> : m \in MacroInfos}
    \cup
    {<<DefMacroDirective(m), UndefMacroDirective>> : m \in MacroInfos}
    \cup
    {<<DefMacroDirective(m), UndefMacroDirective,
       DefMacroDirective(FunctionLikeOneParameter)>> : m \in MacroInfos}

\* the identifier tables: entry i has the key IdentifierNames[i]
IdentifierTables ==
    {[i \in 1..Len(h) |-> [key |-> IdentifierNames[i], history |-> h[i]]] :
        h \in SeqsUpTo(MacroDirectiveHistories \cup {<<>>}, MaxIdentifiers)}

\* Preprocessor::getLocalMacroDirectiveHistory: the latest directive, or null
getLocalMacroDirectiveHistory(entry) == Len(entry.history)

RECURSIVE LatestDefinition(_, _, _)
LatestDefinition(history, at, undefined) ==
    IF history[at].directive = "define"
    THEN [location |-> at, isUndefined |-> undefined, info |-> history[at].info]
    ELSE LatestDefinition(history, at - 1, TRUE)

\* MacroDirective::getDefinition(): walks back from the latest directive to the
\* latest definition, noting an #undef passed on the way
getDefinition(history, macro) == LatestDefinition(history, macro, FALSE)

\* a variant of the descriptor that reports a macro as never undefined
MacroInformationNeverUndefined(key, definition) ==
    [Name |-> key, NameLength |-> Len(key), Location |-> definition.location,
     WasUndefined |-> FALSE,
     IsFunctionLike |-> definition.info.isFunctionLike,
     IsBuiltInMacro |-> definition.info.isBuiltinMacro,
     HasCommaPasting |-> definition.info.hasCommaPasting,
     VardicKind |-> IF definition.info.isC99Varargs THEN "C99"
                    ELSE IF definition.info.isGNUVarargs THEN "Gnu" ELSE "None",
     ParameterCount |-> Len(definition.info.params)]

\* pathogenInfo up to ParameterCount
MacroInformation(key, definition) ==
    [Name |-> key, NameLength |-> Len(key), Location |-> definition.location,
     WasUndefined |-> definition.isUndefined,
     IsFunctionLike |-> definition.info.isFunctionLike,
     IsBuiltInMacro |-> definition.info.isBuiltinMacro,
     HasCommaPasting |-> definition.info.hasCommaPasting,
     VardicKind |-> IF definition.info.isC99Varargs THEN "C99"
                    ELSE IF definition.info.isGNUVarargs THEN "Gnu" ELSE "None",
     ParameterCount |-> Len(definition.info.params)]

\* a variant that pushes the names without clearing the vector first
PushParameterNamesWithoutClear(parameterNames, params) == parameterNames \o params

\* parameterNames.clear() and one push_back of getName().data() per parameter
PushParameterNames(parameterNames, params) ==
    [i \in 1..Len(params) |-> params[i]]

\* parameterNameLengths.clear() and one push_back of getName().size() per parameter
PushParameterNameLengths(parameterNameLengths, params) ==
    [i \in 1..Len(params) |-> Len(params[i])]

InitMacros ==
    /\ pc = "idle"
    /\ FirstField = NULL
    /\ FirstVTable = NULL
    /\ fieldHeap = <<>>
    /\ vtableHeap = <<>>
    /\ entriesHeap = <<>>
    /\ badRead = FALSE
    /\ header = NoHeader
    /\ layoutAllocs = 0
    /\ layoutFrees = 0
    /\ ret = "none"
    /\ cursor = NoCursor
    /\ calls = <<>>
    /\ cv = NoConst
    /\ ab = NoAbi
    /\ OthersIdle
    /\ mc = [phase |-> "idle", idTable |-> <<>>, it |-> 1, parameterNames |-> <<>>,
             parameterNameLengths |-> <<>>, callbacks |-> <<>>]

MacrosOthersUnchanged ==
    UNCHANGED <<pc, FirstField, FirstVTable, fieldHeap, vtableHeap, entriesHeap, badRead,
                header, layoutAllocs, layoutFrees, ret, cursor, calls, cv, ab, qr, tp, de, cg>>

\* the call: the table of the translation unit, the two empty vectors, it = begin()
pathogen_EnumerateMacros ==
    /\ mc.phase = "idle"
    /\ \E idTable \in IdentifierTables :
          mc' = [phase |-> "enumerating", idTable |-> idTable, it |-> 1,
                 parameterNames |-> <<>>, parameterNameLengths |-> <<>>,
                 callbacks |-> <<>>]
    /\ MacrosOthersUnchanged

\* one iteration of the loop: the identifier is skipped, or described and
\* handed to the enumerator, which sees the descriptor and the two arrays
EnumerateIdentifier ==
    /\ mc.phase = "enumerating"
    /\ mc.it <= Len(mc.idTable)
    /\ LET entry == mc.idTable[mc.it]
           macro == getLocalMacroDirectiveHistory(entry)
       IN  IF macro = NULL
           THEN mc' = [mc EXCEPT !.it = @ + 1]
           ELSE LET definition == getDefinition(entry.history, macro)
                    pathogenInfo == MacroInformation(entry.key, definition)
                    names == PushParameterNames(mc.parameterNames, definition.info.params)
                    lengths == PushParameterNameLengths(mc.parameterNameLengths,
                                                        definition.info.params)
                IN  mc' = [mc EXCEPT
                              !.it = @ + 1,
                              !.parameterNames = names,
                              !.parameterNameLengths = lengths,
                              !.callbacks =
                                  Append(@, [macroInfo |-> pathogenInfo,
                                             ParameterNames |-> names,
                                             ParameterNameLengths |-> lengths])]
    /\ MacrosOthersUnchanged

\* it == idTable.end(): the function returns
EnumerateMacrosReturns ==
    /\ mc.phase = "enumerating"
    /\ mc.it > Len(mc.idTable)
    /\ mc' = [mc EXCEPT !.phase = "returned"]
    /\ MacrosOthersUnchanged

NextMacros == pathogen_EnumerateMacros \/ EnumerateIdentifier \/ EnumerateMacrosReturns

SpecMacros == InitMacros /\ [][NextMacros]_vars

-----------------------------------------------------------------------------
(* The stand-alone queries: pathogen_GetTypeSizes,                          *)
(* pathogen_getArgPassingRestrictions, pathogen_EnumerateDeclarationsRawMoveNext *)
(* and the callability checks pathogen_IsFunctionCallable and               *)
(* pathogen_IsFunctionTypeCallable                                          *)

\* parameters of a function type
MaxParameters == 2

\* the members of struct PathogenTypeSizes, each named after the type it sizes
SizeFields ==
    {"PathogenTypeSizes", "PathogenRecordLayout", "PathogenRecordField", "PathogenVTable",
     "PathogenVTableEntry", "PathogenOperatorOverloadInfo", "PathogenConstantString",
     "PathogenConstantValueInfo", "PathogenMacroInformation",
     "PathogenTemplateInstantiationMetrics", "PathogenCodeGenerator", "PathogenArgumentInfo",
     "PathogenArrangedFunction"}

\* sizeof(T) under the x86-64 data layout
sizeof(T) ==
    CASE T = "PathogenTypeSizes" -> 52
      [] T = "PathogenRecordLayout" -> 56
      [] T = "PathogenRecordField" -> 112
      [] T = "PathogenVTable" -> 24
      [] T = "PathogenVTableEntry" -> 80
      [] T = "PathogenOperatorOverloadInfo" -> 32
      [] T = "PathogenConstantString" -> 16
      [] T = "PathogenConstantValueInfo" -> 24
      [] T = "PathogenMacroInformation" -> 72
      [] T = "PathogenTemplateInstantiationMetrics" -> 32
      [] T = "PathogenCodeGenerator" -> 16
      [] T = "PathogenArgumentInfo" -> 40
      [] T = "PathogenArrangedFunction" -> 64

\* `i != n` for an int i and a size_t n: the int is converted to size_t, so a
\* negative one becomes a value above every size
IntDiffersFromSize(i, n) == i < 0 \/ i # n

\* a variant that populates the members before it tests the size
GetTypeSizesPopulateFirst(sizes) ==
    LET populated ==
            [f \in SizeFields |-> IF f = "PathogenTypeSizes" THEN sizes[f] ELSE sizeof(f)]
    IN  IF IntDiffersFromSize(sizes["PathogenTypeSizes"], sizeof("PathogenTypeSizes"))
        THEN [ret |-> FALSE, sizes |-> populated]
        ELSE [ret |-> TRUE, sizes |-> populated]

\* pathogen_GetTypeSizes(sizes)
GetTypeSizes(sizes) ==
    IF IntDiffersFromSize(sizes["PathogenTypeSizes"], sizeof("PathogenTypeSizes"))
    THEN [ret |-> FALSE, sizes |-> sizes]
    ELSE [ret |-> TRUE,
          sizes |-> [f \in SizeFields |->
                        IF f = "PathogenTypeSizes" THEN sizes[f] ELSE sizeof(f)]]

\* what a caller declares as the size of its own PathogenTypeSizes
DeclaredSizes == {0 - 52, 0, 48, 52, 56}

\* what the other members hold before the call
StaleSizes == {0 - 1, 0, 24}

\* the caller's structure before the call
CallerSizes ==
    {[f \in SizeFields |-> IF f = "PathogenTypeSizes" THEN declared ELSE stale] :
        declared \in DeclaredSizes, stale \in StaleSizes}

\* enum class PathogenArgPassingKind
PathogenArgPassingKind ==
    {"CanPassInRegisters", "CannotPassInRegisters", "CanNeverPassInRegisters", "Invalid"}

\* RecordDecl::ArgPassingKind
ArgPassingKind == {"APK_CanPassInRegs", "APK_CannotPassInRegs", "APK_CanNeverPassInRegs"}

\* the cast (PathogenArgPassingKind)record->getArgPassingRestrictions()
AsPathogenArgPassingKind(apk) ==
    CASE apk = "APK_CanPassInRegs" -> "CanPassInRegisters"
      [] apk = "APK_CannotPassInRegs" -> "CannotPassInRegisters"
      [] apk = "APK_CanNeverPassInRegs" -> "CanNeverPassInRegisters"

\* A cursor as the queries see it: clang_isDeclaration(cursor.kind), the class
\* of the Decl that getCursorDecl returns ("null" when there is none), the
\* argument passing restrictions of a record and whether the declaration has
\* a next sibling in its context.
QueryCursors ==
    {c \in [isDeclaration : BOOLEAN, decl : {"null", "Record", "Function", "Other"},
            restrictions : ArgPassingKind, hasSibling : BOOLEAN] :
        /\ c.decl # "Record" => c.restrictions = "APK_CanPassInRegs"
        /\ c.decl = "null" => ~c.hasSibling}

\* the call did not return: the process was terminated by a fault
Fault == "fault"

\* Reading through a null pointer is undefined: the call faults, or it
\* returns whatever the read produced.
NullDereference(values) == {Fault} \cup values

\* pathogen_getArgPassingRestrictions(cursor): the outcomes the call can have
getArgPassingRestrictions(c) ==
    IF ~c.isDeclaration THEN {"Invalid"}
    ELSE IF c.decl # "Record" THEN NullDereference(PathogenArgPassingKind)
    ELSE {AsPathogenArgPassingKind(c.restrictions)}

\* pathogen_EnumerateDeclarationsRawMoveNext(cursor): the outcomes the call can
\* have, as the kind of cursor returned
EnumerateDeclarationsRawMoveNext(c) ==
    IF ~c.isDeclaration THEN {"NullCursor"}
    ELSE IF c.decl = "null" THEN NullDereference({"NullCursor", "SiblingCursor"})
    ELSE IF ~c.hasSibling THEN {"NullCursor"}
    ELSE {"SiblingCursor"}

\* A type as Sema::RequireCompleteType sees it: void, complete, incomplete but
\* completed on demand (an implicit instantiation), or incomplete for good, in
\* which case the diagnoser is called some number of times, possibly never.
QualTypes ==
    {[name |-> "void", isVoid |-> TRUE, isIncomplete |-> TRUE, completes |-> FALSE,
      diagnoseCalls |-> 1],
     [name |-> "int", isVoid |-> FALSE, isIncomplete |-> FALSE, completes |-> TRUE,
      diagnoseCalls |-> 0],
     [name |-> "Template<int>", isVoid |-> FALSE, isIncomplete |-> TRUE, completes |-> TRUE,
      diagnoseCalls |-> 0],
     [name |-> "Forward", isVoid |-> FALSE, isIncomplete |-> TRUE, completes |-> FALSE,
      diagnoseCalls |-> 1],
     [name |-> "Silent", isVoid |-> FALSE, isIncomplete |-> TRUE, completes |-> FALSE,
      diagnoseCalls |-> 0],
     [name |-> "Template<Forward>", isVoid |-> FALSE, isIncomplete |-> TRUE,
      completes |-> FALSE, diagnoseCalls |-> 2]}

\* the parameter types of a function type are never void
ParameterTypes == {t \in QualTypes : ~t.isVoid}

\* const FunctionProtoType*
FunctionProtoTypes ==
    [returnType : QualTypes, paramTypes : SeqsUpTo(ParameterTypes, MaxParameters)]

\* class Diagnoser, as constructed
NewDiagnoser ==
    [IsHandlingParameters |-> FALSE, Diagnostics |-> <<>>, DiagnosticWasReceived |-> FALSE]

\* a diagnostic string: its fixed text and the printed type inside the quotes
Diagnostic(text, type) == [text |-> text, type |-> type]

\* Diagnoser::emitDiagnostic(type)
emitDiagnostic(d, type) ==
    [d EXCEPT !.DiagnosticWasReceived = TRUE,
              !.Diagnostics =
                  Append(@, Diagnostic(IF ~d.IsHandlingParameters THEN "Return type"
                                       ELSE "Argument type", type.name))]

\* Diagnoser::diagnose(semanticModel, sourceLocation, type), called n times
RECURSIVE diagnose(_, _, _)
diagnose(d, type, n) == IF n = 0 THEN d ELSE diagnose(emitDiagnostic(d, type), type, n - 1)

\* a variant that relies on the diagnoser having been called
ensureDiagnosticEmittedResetOnly(d, type) == [d EXCEPT !.DiagnosticWasReceived = FALSE]

\* Diagnoser::ensureDiagnosticEmitted(type)
ensureDiagnosticEmitted(d, type) ==
    LET d1 == IF ~d.DiagnosticWasReceived THEN emitDiagnostic(d, type) ELSE d
    IN  [d1 EXCEPT !.DiagnosticWasReceived = FALSE]

\* Sema::RequireCompleteType(sourceLocation, type, diagnoser): true upon
\* failure, the diagnoser having been called as often as the type says
RequireCompleteType(type, d) ==
    IF ~type.isIncomplete \/ type.completes
    THEN [failed |-> FALSE, d |-> d]
    ELSE [failed |-> TRUE, d |-> diagnose(d, type, type.diagnoseCalls)]

\* "Check the return type"
CheckReturnType(returnType, st) ==
    IF returnType.isVoid THEN st
    ELSE IF ~returnType.isIncomplete THEN st
    ELSE LET r == RequireCompleteType(returnType, st.d) IN
         IF r.failed
         THEN [isCallable |-> FALSE, d |-> ensureDiagnosticEmitted(r.d, returnType)]
         ELSE [isCallable |-> st.isCallable, d |-> r.d]

\* "Check the parameter types": the loop over param_types(), from index i on
RECURSIVE CheckParameterTypes(_, _, _)
CheckParameterTypes(paramTypes, st, i) ==
    IF i > Len(paramTypes) THEN st
    ELSE LET d0 == [st.d EXCEPT !.DiagnosticWasReceived = FALSE]
             r == RequireCompleteType(paramTypes[i], d0)
             st1 == IF r.failed
                    THEN [isCallable |-> FALSE,
                          d |-> ensureDiagnosticEmitted(r.d, paramTypes[i])]
                    ELSE [isCallable |-> st.isCallable, d |-> r.d]
         IN  CheckParameterTypes(paramTypes, st1, i + 1)

\* a null CXStringSet*
NullStringSet == [isNull |-> TRUE, Strings |-> <<>>]

\* cxstring::createSet(strings)
createSet(strings) == [isNull |-> FALSE, Strings |-> strings]

\* pathogen_CreateSingleDiagnosticStringSet(diagnostic)
CreateSingleDiagnosticStringSet(diagnostic) == createSet(<<Diagnostic(diagnostic, "")>>)

\* the call ended the process in a failed assertion
AbortedCall == [aborted |-> TRUE, set |-> NullStringSet]

\* the call returned the string set
Returns(set) == [aborted |-> FALSE, set |-> set]

\* assert(condition), then the rest of the function: with assertions compiled
\* in, a false condition ends the process
AssertThen(ndebug, condition, rest) == IF ~ndebug /\ ~condition THEN AbortedCall ELSE rest

\* pathogen_IsFunctionTypeCallable(translationUnit, functionType)
IsFunctionTypeCallable(ndebug, functionType) ==
    LET st0 == [isCallable |-> TRUE, d |-> NewDiagnoser]
        st1 == CheckReturnType(functionType.returnType, st0)
        st2 == CheckParameterTypes(functionType.paramTypes,
                                   [st1 EXCEPT !.d.IsHandlingParameters = TRUE], 1)
    IN  AssertThen(ndebug,
                   IF st2.isCallable THEN Len(st2.d.Diagnostics) = 0
                                     ELSE Len(st2.d.Diagnostics) > 0,
                   Returns(IF st2.isCallable THEN NullStringSet
                           ELSE createSet(st2.d.Diagnostics)))

\* a function type without prototype, and one with
DeclaredFunctionTypes == {[proto |-> FALSE]} \cup {[proto |-> TRUE, type |-> t] : t \in FunctionProtoTypes}

\* pathogen_IsFunctionCallable(translationUnit, function), by the type of the function
IsFunctionCallableDecl(ndebug, type) ==
    IF ~type.proto
    THEN AssertThen(ndebug, FALSE,
            Returns(CreateSingleDiagnosticStringSet(
                        "The specified function is not a FunctionProtoType.")))
    ELSE IsFunctionTypeCallable(ndebug, type.type)

\* pathogen_IsFunctionCallable(cursor), for a cursor whose function has that type
IsFunctionCallable(ndebug, c, type) ==
    IF c.decl # "Function"
    THEN AssertThen(ndebug, FALSE,
            Returns(CreateSingleDiagnosticStringSet(
                        "The specified cursor is not a FunctionDecl.")))
    ELSE IsFunctionCallableDecl(ndebug, type)

\* pathogen_IsFunctionTypeCallable(type), for a CXType that is null, or holds
\* a type that is not a function prototype, or holds one
IsFunctionTypeCallableCXType(ndebug, type) ==
    IF type.kind = "null"
    THEN AssertThen(ndebug, FALSE,
            Returns(CreateSingleDiagnosticStringSet("The specified type is null.")))
    ELSE IF type.kind # "FunctionProto"
    THEN AssertThen(ndebug, FALSE,
            Returns(CreateSingleDiagnosticStringSet(
                        "The specified type is not a FunctionProtoType.")))
    ELSE IsFunctionTypeCallable(ndebug, type.type)

\* the CXType values handed to pathogen_IsFunctionTypeCallable
CXTypes ==
    {[kind |-> "null"], [kind |-> "Record"]}
        \cup {[kind |-> "FunctionProto", type |-> t] : t \in FunctionProtoTypes}

InitQueries ==
    /\ pc = "idle"
    /\ FirstField = NULL
    /\ FirstVTable = NULL
    /\ fieldHeap = <<>>
    /\ vtableHeap = <<>>
    /\ entriesHeap = <<>>
    /\ badRead = FALSE
    /\ header = NoHeader
    /\ layoutAllocs = 0
    /\ layoutFrees = 0
    /\ ret = "none"
    /\ cursor = NoCursor
    /\ calls = <<>>
    /\ cv = NoConst
    /\ ab = NoAbi
    /\ mc = NoMacros
    /\ \E ndebug \in BOOLEAN : qr = [phase |-> "idle", ndebug |-> ndebug]
    /\ tp = NoTemplates
    /\ de = NoDecls
    /\ cg = NoCodeGen

QueriesOthersUnchanged ==
    UNCHANGED <<pc, FirstField, FirstVTable, fieldHeap, vtableHeap, entriesHeap, badRead,
                header, layoutAllocs, layoutFrees, ret, cursor, calls, cv, ab, mc, tp, de, cg>>

pathogen_GetTypeSizes ==
    /\ qr.phase = "idle"
    /\ \E sizes \in CallerSizes :
          LET res == GetTypeSizes(sizes) IN
          qr' = [phase |-> "GetTypeSizes", ndebug |-> qr.ndebug, before |-> sizes,
                 sizes |-> res.sizes, ret |-> res.ret]
    /\ QueriesOthersUnchanged

pathogen_getArgPassingRestrictions ==
    /\ qr.phase = "idle"
    /\ \E c \in QueryCursors : \E outcome \in getArgPassingRestrictions(c) :
          qr' = [phase |-> "getArgPassingRestrictions", ndebug |-> qr.ndebug, cursor |-> c,
                 ret |-> outcome]
    /\ QueriesOthersUnchanged

pathogen_EnumerateDeclarationsRawMoveNext ==
    /\ qr.phase = "idle"
    /\ \E c \in QueryCursors : \E outcome \in EnumerateDeclarationsRawMoveNext(c) :
          qr' = [phase |-> "EnumerateDeclarationsRawMoveNext", ndebug |-> qr.ndebug,
                 cursor |-> c, ret |-> outcome]
    /\ QueriesOthersUnchanged

pathogen_IsFunctionCallable ==
    /\ qr.phase = "idle"
    /\ \E c \in QueryCursors : \E type \in DeclaredFunctionTypes :
          /\ c.decl # "Function" => ~type.proto
          /\ LET res == IsFunctionCallable(qr.ndebug, c, type) IN
                qr' = [phase |-> "IsFunctionCallable", ndebug |-> qr.ndebug, cursor |-> c,
                       type |-> type, aborted |-> res.aborted, ret |-> res.set]
    /\ QueriesOthersUnchanged

pathogen_IsFunctionTypeCallable ==
    /\ qr.phase = "idle"
    /\ \E type \in CXTypes :
          LET res == IsFunctionTypeCallableCXType(qr.ndebug, type) IN
          qr' = [phase |-> "IsFunctionTypeCallable", ndebug |-> qr.ndebug, type |-> type,
                 aborted |-> res.aborted, ret |-> res.set]
    /\ QueriesOthersUnchanged

NextQueries ==
    \/ pathogen_GetTypeSizes
    \/ pathogen_getArgPassingRestrictions
    \/ pathogen_EnumerateDeclarationsRawMoveNext
    \/ pathogen_IsFunctionCallable
    \/ pathogen_IsFunctionTypeCallable

SpecQueries == InitQueries /\ [][NextQueries]_vars

-----------------------------------------------------------------------------
(* The template instantiation helpers:                                      *)
(* pathogen_InstantiateSpecializedClassTemplate and                         *)
(* pathogen_InstantiateAllFullySpecializedClassTemplates                    *)

\* types in the context's type table when the calls begin
MaxTypes == 2
\* calls of pathogen_InstantiateSpecializedClassTemplate the model follows
MaxInstantiateCalls == 2

\* enum TemplateSpecializationKind, as far as the calls tell its values apart
TemplateSpecializationKind ==
    {"TSK_Undeclared", "TSK_ImplicitInstantiation", "TSK_ExplicitSpecialization"}

\* a type that is not a record type
BuiltinType ==
    [class |-> "Builtin", decl |-> "none", templateDefined |-> FALSE,
     kind |-> "TSK_Undeclared", instantiable |-> FALSE, newTypes |-> 0]

\* A type of the table: its type class; for a record type the class of its
\* declaration (a plain record, a class template specialization, a partial
\* specialization), whether the specialized template has a definition, the
\* specialization kind, whether an instantiation would succeed and how many
\* types it would add to the table.
Types ==
    {BuiltinType,
     [class |-> "Record", decl |-> "Record", templateDefined |-> FALSE,
      kind |-> "TSK_Undeclared", instantiable |-> FALSE, newTypes |-> 0],
     [class |-> "Record", decl |-> "ClassTemplateSpecialization", templateDefined |-> FALSE,
      kind |-> "TSK_Undeclared", instantiable |-> FALSE, newTypes |-> 0],
     [class |-> "Record", decl |-> "ClassTemplatePartialSpecialization",
      templateDefined |-> TRUE, kind |-> "TSK_ExplicitSpecialization",
      instantiable |-> FALSE, newTypes |-> 0],
     [class |-> "Record", decl |-> "ClassTemplateSpecialization", templateDefined |-> TRUE,
      kind |-> "TSK_Undeclared", instantiable |-> TRUE, newTypes |-> 0],
     [class |-> "Record", decl |-> "ClassTemplateSpecialization", templateDefined |-> TRUE,
      kind |-> "TSK_Undeclared", instantiable |-> TRUE, newTypes |-> 1],
     [class |-> "Record", decl |-> "ClassTemplateSpecialization", templateDefined |-> TRUE,
      kind |-> "TSK_Undeclared", instantiable |-> FALSE, newTypes |-> 0],
     [class |-> "Record", decl |-> "ClassTemplateSpecialization", templateDefined |-> TRUE,
      kind |-> "TSK_ImplicitInstantiation", instantiable |-> TRUE, newTypes |-> 0]}

\* dyn_cast_or_null<ClassTemplateSpecializationDecl>: a partial specialization
\* is a class template specialization as well
IsClassTemplateSpecialization(type) ==
    type.decl \in {"ClassTemplateSpecialization", "ClassTemplatePartialSpecialization"}

\* the types an instantiation adds to the table
RECURSIVE NewTypes(_)
NewTypes(n) == IF n = 0 THEN <<>> ELSE Append(NewTypes(n - 1), BuiltinType)

\* Sema::InstantiateClassTemplateSpecialization(location, decl, TSK_ImplicitInstantiation)
\* on the declaration of the type at that index: true upon failure.  A success
\* makes the declaration an implicit instantiation and adds the types its
\* members need; a failure may leave the kind set as well.
InstantiateClassTemplateSpecialization(types, index) ==
    LET type == types[index] IN
    IF type.instantiable
    THEN {[failed |-> FALSE,
           types |-> [types EXCEPT ![index].kind = "TSK_ImplicitInstantiation"]
                         \o NewTypes(type.newTypes)]}
    ELSE {[failed |-> TRUE, types |-> types],
          [failed |-> TRUE,
           types |-> [types EXCEPT ![index].kind = "TSK_ImplicitInstantiation"]]}

\* the cursors handed to pathogen_InstantiateSpecializedClassTemplate: not a
\* declaration, a declaration cursor without declaration or with one that is
\* no record, or the cursor of the declaration of the type at an index
TemplateCursors(types) ==
    {[isDeclaration |-> FALSE, decl |-> "Other", index |-> 0],
     [isDeclaration |-> TRUE, decl |-> "null", index |-> 0],
     [isDeclaration |-> TRUE, decl |-> "Other", index |-> 0]}
        \cup {[isDeclaration |-> TRUE, decl |-> "Type", index |-> i] :
                i \in {j \in 1..Len(types) : types[j].class = "Record"}}

\* the outcome when the call returns without a call of the semantic analyser
NotInstantiated(types, value) == {[ret |-> value, invoked |-> FALSE, types |-> types]}

\* a variant without the test of the specialization kind
InstantiateSpecializedClassTemplateAlways(types, c) ==
    IF ~c.isDeclaration THEN NotInstantiated(types, FALSE)
    ELSE IF c.decl # "Type" THEN NotInstantiated(types, FALSE)
    ELSE IF ~IsClassTemplateSpecialization(types[c.index]) THEN NotInstantiated(types, FALSE)
    ELSE {[ret |-> ~o.failed, invoked |-> TRUE, types |-> o.types] :
            o \in InstantiateClassTemplateSpecialization(types, c.index)}

\* pathogen_InstantiateSpecializedClassTemplate(cursor): the outcomes of the call
InstantiateSpecializedClassTemplate(types, c) ==
    IF ~c.isDeclaration THEN NotInstantiated(types, FALSE)
    ELSE IF c.decl # "Type" THEN NotInstantiated(types, FALSE)
    ELSE IF ~IsClassTemplateSpecialization(types[c.index]) THEN NotInstantiated(types, FALSE)
    ELSE IF types[c.index].kind # "TSK_Undeclared" THEN NotInstantiated(types, TRUE)
    ELSE {[ret |-> ~o.failed, invoked |-> TRUE, types |-> o.types] :
            o \in InstantiateClassTemplateSpecialization(types, c.index)}

\* PathogenTemplateInstantiationMetrics metrics = {}
NoMetrics ==
    [TotalSpecializationsCount |-> 0, PartialSpecializationsCount |-> 0,
     SuccessfulInstantiationsCount |-> 0, FailedInstantiationsCount |-> 0]

\* the tests of the loop body that come before the instantiation: what to do
\* with the type the iterator yields
Classify(type) ==
    IF type.class # "Record" THEN "skip"
    ELSE IF ~IsClassTemplateSpecialization(type) THEN "skip"
    ELSE IF ~type.templateDefined THEN "skip"
    ELSE IF type.decl = "ClassTemplatePartialSpecialization" THEN "partial"
    ELSE IF type.kind # "TSK_Undeclared" THEN "total"
    ELSE "instantiate"

InitTemplates ==
    /\ pc = "idle"
    /\ FirstField = NULL
    /\ FirstVTable = NULL
    /\ fieldHeap = <<>>
    /\ vtableHeap = <<>>
    /\ entriesHeap = <<>>
    /\ badRead = FALSE
    /\ header = NoHeader
    /\ layoutAllocs = 0
    /\ layoutFrees = 0
    /\ ret = "none"
    /\ cursor = NoCursor
    /\ calls = <<>>
    /\ cv = NoConst
    /\ ab = NoAbi
    /\ mc = NoMacros
    /\ qr = NoQueries
    /\ \E types \in SeqsUpTo(Types, MaxTypes) : \E spare \in {0, 1} :
          tp = [phase |-> "idle", types |-> types, capacity |-> Len(types) + spare,
                log |-> <<>>, before |-> types, metrics |-> NoMetrics, it |-> 0, end |-> 0,
                dangling |-> FALSE, attempts |-> <<>>]
    /\ de = NoDecls
    /\ cg = NoCodeGen

TemplatesOthersUnchanged ==
    UNCHANGED <<pc, FirstField, FirstVTable, fieldHeap, vtableHeap, entriesHeap, badRead,
                header, layoutAllocs, layoutFrees, ret, cursor, calls, cv, ab, mc, qr, de, cg>>

\* SmallVector growth: the capacity that holds n elements
GrownCapacity(capacity, n) == IF n > capacity THEN n ELSE capacity

\* one call of pathogen_InstantiateSpecializedClassTemplate
pathogen_InstantiateSpecializedClassTemplate ==
    /\ tp.phase \in {"idle", "single"}
    /\ Len(tp.log) < MaxInstantiateCalls
    /\ \E c \in TemplateCursors(tp.types) :
       \E o \in InstantiateSpecializedClassTemplate(tp.types, c) :
          tp' = [tp EXCEPT !.phase = "single",
                           !.types = o.types,
                           !.capacity = GrownCapacity(@, Len(o.types)),
                           !.log = Append(@, [cursor |-> c, ret |-> o.ret,
                                              invoked |-> o.invoked, before |-> tp.types,
                                              after |-> o.types])]
    /\ TemplatesOthersUnchanged

\* pathogen_InstantiateAllFullySpecializedClassTemplates up to the loop: the
\* range-based for takes begin() and end() of the table once
InstantiateAllBegin ==
    /\ tp.phase = "idle"
    /\ tp' = [tp EXCEPT !.phase = "sweeping", !.metrics = NoMetrics, !.it = 1,
                        !.end = Len(tp.types), !.before = tp.types]
    /\ TemplatesOthersUnchanged

\* What `*it` yields when it does not fault.  Once the table's buffer has
\* been reallocated the iterator points into released memory: the read may
\* still find the old element or may find anything else.
Dereference ==
    IF tp.dangling THEN {tp.types[tp.it]} \cup Types ELSE {tp.types[tp.it]}

\* one iteration of the loop
InstantiateAllStep ==
    /\ tp.phase = "sweeping"
    /\ tp.it <= tp.end
    /\ \E type \in Dereference :
          LET action == Classify(type) IN
          IF action = "skip"
          THEN tp' = [tp EXCEPT !.it = @ + 1]
          ELSE IF action = "partial"
          THEN tp' = [tp EXCEPT !.it = @ + 1,
                                !.metrics.PartialSpecializationsCount = @ + 1]
          ELSE IF action = "total"
          THEN tp' = [tp EXCEPT !.it = @ + 1,
                                !.metrics.TotalSpecializationsCount = @ + 1]
          ELSE \E o \in IF type = tp.types[tp.it]
                        THEN InstantiateClassTemplateSpecialization(tp.types, tp.it)
                        ELSE {[failed |-> f, types |-> tp.types] : f \in BOOLEAN} :
               \E moved \in IF Len(o.types) > tp.capacity THEN BOOLEAN ELSE {FALSE} :
                  tp' = [tp EXCEPT
                           !.it = @ + 1,
                           !.types = o.types,
                           !.capacity = GrownCapacity(@, Len(o.types)),
                           !.dangling = @ \/ moved,
                           !.attempts = Append(@, type),
                           !.metrics.TotalSpecializationsCount = @ + 1,
                           !.metrics.FailedInstantiationsCount =
                               IF o.failed THEN @ + 1 ELSE @,
                           !.metrics.SuccessfulInstantiationsCount =
                               IF o.failed THEN @ ELSE @ + 1]
    /\ TemplatesOthersUnchanged

\* a read through the dangling iterator faults: the call never returns
InstantiateAllFault ==
    /\ tp.phase = "sweeping"
    /\ tp.it <= tp.end
    /\ tp.dangling
    /\ tp' = [tp EXCEPT !.phase = "fault"]
    /\ TemplatesOthersUnchanged

\* the loop is over: return metrics
InstantiateAllReturn ==
    /\ tp.phase = "sweeping"
    /\ tp.it > tp.end
    /\ tp' = [tp EXCEPT !.phase = "swept"]
    /\ TemplatesOthersUnchanged

NextTemplates ==
    \/ pathogen_InstantiateSpecializedClassTemplate
    \/ InstantiateAllBegin
    \/ InstantiateAllStep
    \/ InstantiateAllFault
    \/ InstantiateAllReturn

SpecTemplates == InitTemplates /\ [][NextTemplates]_vars

-----------------------------------------------------------------------------
(* The raw declaration enumeration: pathogen_BeginEnumerateDeclarationsRaw  *)
(* followed by pathogen_EnumerateDeclarationsRawMoveNext until the null     *)
(* cursor comes back                                                        *)

\* child declarations of a declaration context
MaxChildren == 3

\* the classes of the child declarations
ChildKinds == {"Field", "CXXMethod", "AccessSpec"}

\* A declaration context with those children, in that order.  The Decl
\* objects lie in memory in the reverse order; each holds its class and
\* NextInContext, the context holds FirstDecl.
DeclContextOf(children) ==
    LET n == Len(children) IN
    [FirstDecl |-> IF n = 0 THEN NULL ELSE n,
     decls |-> [a \in 1..n |->
                   [kind |-> children[n + 1 - a],
                    NextInContext |-> IF a = 1 THEN NULL ELSE a - 1]]]

\* the context of a declaration that is no declaration context
NoDeclContext == DeclContextOf(<<>>)

\* The cursors handed to pathogen_BeginEnumerateDeclarationsRaw: not a
\* declaration, a declaration cursor without declaration or with one that is
\* no declaration context, or the cursor of a declaration context.
EnumerationCursors ==
    {[isDeclaration |-> FALSE, decl |-> "Context", context |-> DeclContextOf(<<"Field">>)],
     [isDeclaration |-> TRUE, decl |-> "null", context |-> NoDeclContext],
     [isDeclaration |-> TRUE, decl |-> "Other", context |-> NoDeclContext]}
        \cup {[isDeclaration |-> TRUE, decl |-> "Context", context |-> DeclContextOf(children)] :
                children \in SeqsUpTo(ChildKinds, MaxChildren)}

\* DeclContext::decls_empty()
decls_empty(context) == context.FirstDecl = NULL

\* *declContext->decls_begin()
decls_begin(context) == context.FirstDecl

\* Decl::getNextDeclInContext()
getNextDeclInContext(context, declaration) == context.decls[declaration].NextInContext

\* a variant that steps over the first declaration of the context
BeginEnumerateDeclarationsRawAfterFirst(c) ==
    IF ~c.isDeclaration THEN NULL
    ELSE IF c.decl # "Context" \/ decls_empty(c.context) THEN NULL
    ELSE getNextDeclInContext(c.context, decls_begin(c.context))

\* pathogen_BeginEnumerateDeclarationsRaw(cursor): the declaration of the
\* cursor returned, NULL for the null cursor
BeginEnumerateDeclarationsRaw(c) ==
    IF ~c.isDeclaration THEN NULL
    ELSE IF c.decl # "Context" \/ decls_empty(c.context) THEN NULL
    ELSE decls_begin(c.context)

\* cxcursor::MakeCXCursor(declaration, translationUnit): the cursor of a child
\* declaration, as the queries see it
MakeCXCursor(context, declaration) ==
    [isDeclaration |-> TRUE, decl |-> "Other", restrictions |-> "APK_CanPassInRegs",
     hasSibling |-> getNextDeclInContext(context, declaration) # NULL]

InitDecls ==
    /\ pc = "idle"
    /\ FirstField = NULL
    /\ FirstVTable = NULL
    /\ fieldHeap = <<>>
    /\ vtableHeap = <<>>
    /\ entriesHeap = <<>>
    /\ badRead = FALSE
    /\ header = NoHeader
    /\ layoutAllocs = 0
    /\ layoutFrees = 0
    /\ ret = "none"
    /\ cursor = NoCursor
    /\ calls = <<>>
    /\ cv = NoConst
    /\ ab = NoAbi
    /\ mc = NoMacros
    /\ qr = NoQueries
    /\ tp = NoTemplates
    /\ \E c \in EnumerationCursors :
          de = [phase |-> "idle", cursor |-> c, current |-> NULL, visited |-> <<>>]
    /\ cg = NoCodeGen

DeclsOthersUnchanged ==
    UNCHANGED <<pc, FirstField, FirstVTable, fieldHeap, vtableHeap, entriesHeap, badRead,
                header, layoutAllocs, layoutFrees, ret, cursor, calls, cv, ab, mc, qr, tp, cg>>

\* the caller begins the enumeration; a null cursor ends it at once
pathogen_BeginEnumerateDeclarationsRaw ==
    /\ de.phase = "idle"
    /\ LET child == BeginEnumerateDeclarationsRaw(de.cursor) IN
          de' = [de EXCEPT !.phase = IF child = NULL THEN "done" ELSE "enumerating",
                           !.current = child,
                           !.visited = IF child = NULL THEN @ ELSE Append(@, child)]
    /\ DeclsOthersUnchanged

\* the caller hands the cursor it holds to
\* pathogen_EnumerateDeclarationsRawMoveNext; a null cursor ends the enumeration
MoveNext ==
    /\ de.phase = "enumerating"
    /\ \E outcome \in
            EnumerateDeclarationsRawMoveNext(MakeCXCursor(de.cursor.context, de.current)) :
          IF outcome = "SiblingCursor"
          THEN LET sibling == getNextDeclInContext(de.cursor.context, de.current) IN
               de' = [de EXCEPT !.current = sibling, !.visited = Append(@, sibling)]
          ELSE de' = [de EXCEPT !.phase = IF outcome = "NullCursor" THEN "done" ELSE "fault",
                                !.current = NULL]
    /\ DeclsOthersUnchanged

NextDecls == pathogen_BeginEnumerateDeclarationsRaw \/ MoveNext

SpecDecls == InitDecls /\ [][NextDecls]_vars

-----------------------------------------------------------------------------
(* The code generator handle: pathogen_CreateCodeGenerator and              *)
(* pathogen_DisposeCodeGenerator                                            *)

\* PathogenCodeGenerator structures the caller holds
MaxHandles == 2
\* calls of pathogen_CreateCodeGenerator the model follows
MaxCreates == 2
\* calls of pathogen_DisposeCodeGenerator the model follows
MaxDisposes == 3

Handles == 1..MaxHandles

\* the translation units a code generator is created for
TranslationUnits == {"tu1", "tu2"}

\* a PathogenCodeGenerator the caller has zeroed
NullHandle == [LlvmContext |-> NULL, CodeGenerator |-> NULL]

\* new llvm::LLVMContext(): the object, not yet deleted
NewLLVMContext == [class |-> "LLVMContext", context |-> NULL, astContext |-> "none",
                   deletes |-> 0]

\* CreateLLVMCodeGen(..., *LlvmContext), then Initialize(astContext): the
\* object refers to the context it was created with
NewCodeGenerator(context, tu) ==
    [class |-> "CodeGenerator", context |-> context, astContext |-> tu, deletes |-> 0]

\* `delete pointer`: nothing for a null pointer
Delete(objects, pointer) ==
    IF pointer = NULL THEN objects ELSE [objects EXCEPT ![pointer].deletes = @ + 1]

\* pathogen_CreateCodeGenerator(translationUnit, codeGenerator), past its assertions
CreateCodeGenerator(objects, tu) ==
    LET LlvmContext == Len(objects) + 1
        objects1 == Append(objects, NewLLVMContext)
        CodeGenerator == Len(objects1) + 1
        objects2 == Append(objects1, NewCodeGenerator(LlvmContext, tu))
    IN  [objects |-> objects2,
         handle |-> [LlvmContext |-> LlvmContext, CodeGenerator |-> CodeGenerator]]

\* a variant that leaves the pointers of the structure as they are
DisposeCodeGeneratorKeepPointers(objects, handle) ==
    [objects |-> Delete(Delete(objects, handle.CodeGenerator), handle.LlvmContext),
     handle |-> handle]

\* pathogen_DisposeCodeGenerator(codeGenerator)
DisposeCodeGenerator(objects, handle) ==
    [objects |-> Delete(Delete(objects, handle.CodeGenerator), handle.LlvmContext),
     handle |-> [handle EXCEPT !.CodeGenerator = NULL, !.LlvmContext = NULL]]

InitCodeGen ==
    /\ pc = "idle"
    /\ FirstField = NULL
    /\ FirstVTable = NULL
    /\ fieldHeap = <<>>
    /\ vtableHeap = <<>>
    /\ entriesHeap = <<>>
    /\ badRead = FALSE
    /\ header = NoHeader
    /\ layoutAllocs = 0
    /\ layoutFrees = 0
    /\ ret = "none"
    /\ cursor = NoCursor
    /\ calls = <<>>
    /\ cv = NoConst
    /\ ab = NoAbi
    /\ mc = NoMacros
    /\ qr = NoQueries
    /\ tp = NoTemplates
    /\ de = NoDecls
    /\ \E ndebug \in BOOLEAN :
          cg = [phase |-> "running", ndebug |-> ndebug, handles |-> [h \in Handles |-> NullHandle],
                objects |-> <<>>, creates |-> 0, disposes |-> 0, misused |-> FALSE]

CodeGenOthersUnchanged ==
    UNCHANGED <<pc, FirstField, FirstVTable, fieldHeap, vtableHeap, entriesHeap, badRead,
                header, layoutAllocs, layoutFrees, ret, cursor, calls, cv, ab, mc, qr, tp, de>>

\* The call on one of the caller's structures.  When a pointer of the
\* structure is not null an assertion fails: that ends the process, or, with
\* assertions compiled out, the call goes on and overwrites the pointers.
pathogen_CreateCodeGenerator ==
    /\ cg.phase = "running"
    /\ cg.creates < MaxCreates
    /\ \E h \in Handles : \E tu \in TranslationUnits :
          LET asserted == /\ cg.handles[h].LlvmContext = NULL
                          /\ cg.handles[h].CodeGenerator = NULL
              res == CreateCodeGenerator(cg.objects, tu)
          IN  IF ~asserted /\ ~cg.ndebug
              THEN cg' = [cg EXCEPT !.phase = "aborted", !.misused = TRUE]
              ELSE cg' = [cg EXCEPT !.objects = res.objects,
                                    !.handles[h] = res.handle,
                                    !.creates = @ + 1,
                                    !.misused = @ \/ ~asserted]
    /\ CodeGenOthersUnchanged

pathogen_DisposeCodeGenerator ==
    /\ cg.phase = "running"
    /\ cg.disposes < MaxDisposes
    /\ \E h \in Handles :
          LET res == DisposeCodeGenerator(cg.objects, cg.handles[h]) IN
          cg' = [cg EXCEPT !.objects = res.objects,
                           !.handles[h] = res.handle,
                           !.disposes = @ + 1]
    /\ CodeGenOthersUnchanged

NextCodeGen == pathogen_CreateCodeGenerator \/ pathogen_DisposeCodeGenerator

SpecCodeGen == InitCodeGen /\ [][NextCodeGen]_vars

-----------------------------------------------------------------------------
(* Properties of the list primitives, checked under SpecList *)

AddFieldCalls == calls

\* C1: after any sequence of AddField calls on a layout that starts empty, the
\* walk from FirstField via NextField yields non-decreasing Offset values and
\* visits exactly one node per AddField call (each allocated node once, carrying
\* the offset and kind of its call).
C1_SortedOneNodePerCall ==
    pc = "built" =>
        LET chain == FieldChain IN
        /\ \A i \in 1..(Len(chain) - 1) :
              fieldHeap[chain[i]].Offset <= fieldHeap[chain[i + 1]].Offset
        /\ Len(chain) = Len(AddFieldCalls)
        /\ Range(chain) = 1..Len(AddFieldCalls)
        /\ \A a \in 1..Len(AddFieldCalls) :
              /\ fieldHeap[a].Offset = AddFieldCalls[a].offset
              /\ fieldHeap[a].Kind = AddFieldCalls[a].kind

\* three calls whose offsets were given in decreasing order
C1_Witness ==
    /\ pc = "built"
    /\ Len(AddFieldCalls) = 3
    /\ AddFieldCalls[1].offset > AddFieldCalls[2].offset
    /\ AddFieldCalls[2].offset > AddFieldCalls[3].offset
    /\ Len(FieldChain) = 3

RemoveAt(s, k) == [i \in 1..(Len(s) - 1) |-> IF i < k THEN s[i] ELSE s[i + 1]]

\* C2: the ordered insert is stable.  Every AddField step places the new node
\* after all nodes whose offset is less than or equal to the new offset and
\* before the first node of strictly greater offset, and the nodes that were
\* already in the list keep their relative order.
C2_StableInsert ==
    [][(pc = "built" /\ pc' = "built" /\ Len(fieldHeap') = Len(fieldHeap) + 1) =>
        LET old == FieldChainFrom(fieldHeap, FirstField)
            new == FieldChainFrom(fieldHeap', FirstField')
            node == Len(fieldHeap')
            off == fieldHeap'[node].Offset
        IN  \E k \in 1..Len(new) :
               /\ new[k] = node
               /\ RemoveAt(new, k) = old
               /\ \A j \in 1..(k - 1) : fieldHeap'[new[j]].Offset <= off
               /\ \A j \in (k + 1)..Len(new) : fieldHeap'[new[j]].Offset > off]_vars

\* a node was inserted between two older nodes: behind one of its own offset
\* and in front of one of greater offset
C2_Witness ==
    /\ pc = "built"
    /\ Len(FieldChain) = 3
    /\ FieldChain[2] = 3
    /\ fieldHeap[FieldChain[1]].Offset = fieldHeap[3].Offset
    /\ fieldHeap[FieldChain[3]].Offset > fieldHeap[3].Offset

\* C7: the release of a layout built by any sequence of AddField and
\* AddVTableLayout calls frees every field node, every v-table node and every
\* Entries array exactly once, and reads no node after it was freed.
C7_ReleasedExactlyOnce ==
    pc = "deleted" /\ ret = "layout" =>
        /\ \A a \in 1..Len(fieldHeap) : fieldHeap[a].frees = 1
        /\ \A a \in 1..Len(vtableHeap) : vtableHeap[a].frees = 1
        /\ \A a \in 1..Len(entriesHeap) : entriesHeap[a].frees = 1
        /\ Len(fieldHeap) = Len(AddFieldCalls)
        /\ Len(entriesHeap) = Len(vtableHeap)
        /\ layoutFrees = 1
        /\ ~badRead

\* a released layout that held several fields and several tables
C7_Witness ==
    /\ pc = "deleted"
    /\ ret = "layout"
    /\ Len(fieldHeap) >= 2
    /\ Len(vtableHeap) >= 2
    /\ \E a \in 1..Len(vtableHeap) : vtableHeap[a].EntryCount > 0

-----------------------------------------------------------------------------
(* Properties of pathogen_GetRecordLayout, checked under SpecLayout *)

Called == pc \in {"built", "deleted"} /\ cursor.kind = "cursor"

Slots == [i \in 1..Len(FieldChain) |-> fieldHeap[FieldChain[i]]]

VTablePtrSlots == SelectSeq(Slots, LAMBDA f : f.Kind = "VTablePtr")

\* C3: the call returns null, having allocated no layout object and nothing
\* else, whenever the cursor is not a declaration, the declaration is not a
\* record, or the record has no definition.
C3_NullWithoutAllocation ==
    (Called /\ (~cursor.isDeclaration \/ cursor.decl # "record" \/ ~cursor.hasDefinition)) =>
        /\ ret = "null"
        /\ layoutAllocs = 0
        /\ fieldHeap = <<>> /\ vtableHeap = <<>> /\ entriesHeap = <<>>
        /\ FirstField = NULL /\ FirstVTable = NULL
        /\ header = NoHeader

\* a declaration cursor of a record that is only forward-declared was queried
C3_Witness ==
    /\ Called
    /\ cursor.isDeclaration /\ cursor.decl = "record" /\ ~cursor.hasDefinition
    /\ ret = "null"

DynamicRecordBuilt ==
    /\ pc = "built" /\ cursor.kind = "cursor" /\ ret = "layout"
    /\ cursor.record.isCxx
    /\ isDynamicClass(cursor.record)

\* C4: for a dynamic class with no base classes, under either ABI, the slot
\* list starts with a VTablePtr slot at offset 0 and holds exactly one
\* VTablePtr slot.
C4_LeadingVTablePtr ==
    (DynamicRecordBuilt /\ cursor.record.bases = <<>>) =>
        /\ Len(Slots) >= 1
        /\ Slots[1].Kind = "VTablePtr"
        /\ Slots[1].Offset = 0
        /\ Len(VTablePtrSlots) = 1

\* a Microsoft-ABI dynamic class without bases whose first field is at offset 0
C4_Witness ==
    /\ DynamicRecordBuilt
    /\ cursor.record.bases = <<>>
    /\ cursor.record.isMs
    /\ Len(cursor.record.fields) = 2
    /\ cursor.record.fields[1].bits = 0
    /\ Len(Slots) = 3

\* C5 as stated: every dynamic class gets exactly one vtable-pointer slot,
\* named "vtable_pointer" or "vftable_pointer".
C5_ExactlyOneAlways ==
    DynamicRecordBuilt =>
        /\ Len(VTablePtrSlots) = 1
        /\ VTablePtrSlots[1].Name \in {"vtable_pointer", "vftable_pointer"}

\* C5, amended: a dynamic class gets at most one vtable-pointer slot, never
\* both styles.  It gets exactly one when (the ABI is Itanium and the layout
\* has no primary base) or the layout reports hasOwnVFPtr, and none otherwise;
\* the slot is "vtable_pointer" in the first case and "vftable_pointer" else.
C5_AtMostOneStyle ==
    DynamicRecordBuilt =>
        LET r == cursor.record
            itanium == ~r.isMs /\ r.primaryBase = 0
        IN  /\ Len(VTablePtrSlots) <= 1
            /\ (Len(VTablePtrSlots) = 1) = (itanium \/ r.hasOwnVFPtr)
            /\ Len(VTablePtrSlots) = 1 =>
                  VTablePtrSlots[1].Name =
                     IF itanium THEN "vtable_pointer" ELSE "vftable_pointer"

\* both outcomes happen: an Itanium class whose vptr lives in its primary base
\* gets no slot of its own
C5_Witness ==
    /\ DynamicRecordBuilt
    /\ ~cursor.record.isMs
    /\ cursor.record.primaryBase # 0
    /\ Len(VTablePtrSlots) = 0
    /\ Len(Slots) >= 1

HasVTablePtrAtZero == \E i \in 1..Len(Slots) : Slots[i].Kind = "VTablePtr" /\ Slots[i].Offset = 0

\* C6 as stated: a dynamic class without primary base always gets a VTablePtr
\* slot at offset 0, whatever the ABI and the hasOwnVFPtr flag.
C6_AlwaysInserted ==
    (DynamicRecordBuilt /\ cursor.record.primaryBase = 0) => HasVTablePtrAtZero

\* C6, amended: a dynamic class without primary base gets a VTablePtr slot at
\* offset 0 under the Itanium ABI, and under the Microsoft ABI exactly when the
\* layout reports hasOwnVFPtr (a Microsoft class that is dynamic only because
\* it has virtual bases gets none).
C6_InsertedWhenOwned ==
    (DynamicRecordBuilt /\ cursor.record.primaryBase = 0) =>
        (HasVTablePtrAtZero = (~cursor.record.isMs \/ cursor.record.hasOwnVFPtr))

\* a Microsoft class, dynamic through a virtual base alone, without the slot
C6_Witness ==
    /\ DynamicRecordBuilt
    /\ cursor.record.primaryBase = 0
    /\ cursor.record.isMs
    /\ ~cursor.record.polymorphic
    /\ ~cursor.record.hasOwnVFPtr
    /\ ~HasVTablePtrAtZero

Tables == [i \in 1..Len(VTableChain) |-> vtableHeap[VTableChain[i]]]

\* C8: for a dynamic class the chain holds one table under the Itanium
\* convention and one table per virtual-function-pointer offset under the
\* Microsoft convention, visited from FirstVTable in extraction order; for a
\* record that is not dynamic the chain is empty.
C8_TablesInExtractionOrder ==
    (pc = "built" /\ cursor.kind = "cursor" /\ ret = "layout") =>
        LET r == cursor.record IN
        IF r.isCxx /\ isDynamicClass(r)
        THEN IF r.isMs
             THEN /\ Len(Tables) = r.numVFPtrs
                  /\ \A k \in 1..Len(Tables) :
                        /\ VTableChain[k] = k
                        /\ Tables[k].EntryCount = 2
                        /\ entriesHeap[Tables[k].Entries].data[2].Kind = "FunctionPointer"
                        /\ entriesHeap[Tables[k].Entries].data[2].MethodDeclaration
                              = 10 + VFPtrOffset(r, k)
             ELSE /\ Len(Tables) = 1
                  /\ Tables[1].EntryCount = 3
                  /\ entriesHeap[Tables[1].Entries].data[1].Kind = "OffsetToTop"
                  /\ entriesHeap[Tables[1].Entries].data[2].Kind = "RTTI"
                  /\ entriesHeap[Tables[1].Entries].data[3].MethodDeclaration = 10
        ELSE FirstVTable = NULL /\ vtableHeap = <<>>

\* a Microsoft class with two virtual-function-pointer offsets
C8_Witness ==
    /\ DynamicRecordBuilt
    /\ cursor.record.isMs
    /\ cursor.record.numVFPtrs = 2
    /\ Len(Tables) = 2

\* the virtual bases of the queried record that lie at offset o
VirtualBasesAt(o) ==
    {i \in 1..Len(cursor.record.bases) :
        cursor.record.bases[i].isVirtual /\ cursor.record.bases[i].offset = o}

\* those of them whose VBaseInfo reports a vtordisp
VtorDispBasesAt(o) == {i \in VirtualBasesAt(o) : cursor.record.bases[i].hasVtorDisp}

SlotsOf(kind, o) == {i \in 1..Len(Slots) : Slots[i].Kind = kind /\ Slots[i].Offset = o}

BaseOffsets == {b.offset : b \in BaseSpecifiers}

\* C24: every virtual base that requires a vtordisp gets a VTorDisp slot at its
\* offset minus 4 and a VirtualBase slot at its offset, the VTorDisp slot
\* standing before the VirtualBase slot in the final list; a virtual base that
\* requires none gets a VirtualBase slot only.
C24_VtorDispBeforeVirtualBase ==
    (pc = "built" /\ cursor.kind = "cursor" /\ ret = "layout" /\ cursor.record.isCxx) =>
        /\ \A o \in BaseOffsets :
              /\ Cardinality(SlotsOf("VirtualBase", o)) = Cardinality(VirtualBasesAt(o))
              /\ Cardinality(SlotsOf("VTorDisp", o - 4)) = Cardinality(VtorDispBasesAt(o))
              /\ \A i \in SlotsOf("VTorDisp", o - 4) : \A j \in SlotsOf("VirtualBase", o) : i < j
        /\ \A i \in 1..Len(Slots) :
              Slots[i].Kind = "VTorDisp" => \E o \in BaseOffsets : Slots[i].Offset = o - 4

\* a record with two virtual bases, one of which requires a vtordisp
C24_Witness ==
    /\ pc = "built" /\ cursor.kind = "cursor" /\ ret = "layout" /\ cursor.record.isCxx
    /\ VtorDispBasesAt(16) # {}
    /\ VirtualBasesAt(16) \ VtorDispBasesAt(16) # {}
    /\ SlotsOf("VTorDisp", 12) # {}
    /\ Cardinality(SlotsOf("VirtualBase", 16)) = 2

-----------------------------------------------------------------------------
(* Properties of pathogen_ComputeConstantValue, checked under SpecConst *)

Returned == cv.phase = "returned" /\ cv.deletes = 0

FoldedTo(kind) ==
    /\ Returned
    /\ cv.cursor.eval.hasConstantValue
    /\ cv.cursor.eval.Val.kind = kind

C10_NotAVariableError ==
    (Returned /\ ((cv.cursor.class = "decl" /\ cv.cursor.decl # "var")
                  \/ cv.cursor.class = "other")) =>
        /\ ~cv.ret
        /\ cv.error.writes = 1
        /\ cv.error.value = NotAVariableMessage

\* a cursor that is neither declaration nor expression was given
C10_Witness ==
    /\ Returned
    /\ cv.cursor.class = "other"
    /\ ~cv.ret
    /\ cv.error.value = NotAVariableMessage

\* C11: on a variable declaration with no initializer the call returns false
\* and does not write *error (nor *info).
C11_NoInitializerSilent ==
    (Returned /\ cv.cursor.class = "decl" /\ cv.cursor.decl = "var"
              /\ ~cv.cursor.hasInit) =>
        /\ ~cv.ret
        /\ cv.error = CallerError
        /\ cv.info = CallerInfo

\* a variable declaration without initializer was given and the call returned false
C11_Witness ==
    /\ Returned
    /\ cv.cursor.class = "decl"
    /\ cv.cursor.decl = "var"
    /\ ~cv.cursor.hasInit
    /\ ~cv.ret
    /\ cv.error.writes = 0

\* C12: whenever the call returns true, *error was not written on any path of
\* the call, and Kind, SubKind, Value, HasSideEffects and HasUndefinedBehavior
\* of *info were all assigned, the two flags to what the evaluation reported.
C12_TrueMeansPopulatedNoError ==
    (Returned /\ cv.ret) =>
        /\ cv.error = CallerError
        /\ cv.info.assigned = AllInfoFields
        /\ cv.info.Kind # CallerInfo.Kind
        /\ cv.info.HasSideEffects = cv.cursor.eval.HasSideEffects
        /\ cv.info.HasUndefinedBehavior = cv.cursor.eval.HasUndefinedBehavior

\* a value of no recognised kind was folded: true, Unknown, everything assigned
C12_Witness ==
    /\ FoldedTo("Struct")
    /\ cv.ret
    /\ cv.info.Kind = "Unknown"
    /\ cv.info.assigned = AllInfoFields
    /\ cv.error.writes = 0

\* the call reached EvaluateAsRValue and the fold failed
FoldFailed ==
    /\ Returned
    /\ SelectExpression(cv.cursor).expr
    /\ ~cv.cursor.eval.hasConstantValue

C13_FailedFoldNeverWritesError ==
    FoldFailed => (~cv.ret /\ cv.error = CallerError)

FoldedStringLiteral ==
    /\ cv.phase = "returned"
    /\ cv.cursor.eval.hasConstantValue
    /\ cv.cursor.eval.Val.kind = "LValue"
    /\ ~cv.cursor.eval.Val.isNullPointer
    /\ cv.cursor.eval.Val.base = "StringLiteral"

\* bit 31 of SubKind, which is the sign of the int
HasWideCharBit(subKind) == subKind < 0

\* C14: when the folded value is an lvalue based on a string literal, Kind is
\* String and SubKind is the literal's encoding, except that a wide literal is
\* re-tagged by its character width (1 to Utf8, 2 to Utf16, 4 to Utf32) with
\* WideCharBit set; bare WideChar is never reported, and WideCharBit is set
\* only for literals whose encoding was wide.
C14_WideLiteralRetagged ==
    FoldedStringLiteral =>
        LET lit == cv.cursor.eval.Val
            sub == cv.info.SubKind
        IN  /\ cv.info.Kind = "String"
            /\ sub # StringKindWideChar
            /\ HasWideCharBit(sub) <=> (lit.stringKind = StringKindWideChar)
            /\ lit.stringKind # StringKindWideChar => sub = lit.stringKind
            /\ lit.stringKind = StringKindWideChar =>
                  /\ lit.charByteWidth = 1 => sub - WideCharBit = StringKindUtf8
                  /\ lit.charByteWidth = 2 => sub - WideCharBit = StringKindUtf16
                  /\ lit.charByteWidth = 4 => sub - WideCharBit = StringKindUtf32

\* a wide literal of two-byte characters was folded and tagged Utf16 | WideCharBit
C14_Witness ==
    /\ FoldedStringLiteral
    /\ cv.cursor.eval.Val.stringKind = StringKindWideChar
    /\ cv.cursor.eval.Val.charByteWidth = 2
    /\ cv.info.SubKind = StringKindUtf16 + WideCharBit

\* C15: for a folded string literal, Value refers to a newly allocated
\* PathogenConstantString whose SizeBytes is the literal's byte length and
\* whose bytes are a copy of the literal's bytes; the cleanup operation
\* releases that buffer, once however often it is called, and no other buffer.
C15_StringBufferCopiedAndReleased ==
    FoldedStringLiteral =>
        LET lit == cv.cursor.eval.Val
            a == Len(cv.strings)
        IN  /\ a >= 1
            /\ cv.info.Value = IF cv.deletes = 0 THEN <<"ptr", a>> ELSE <<"int", ZeroWord>>
            /\ cv.strings[a].SizeBytes = Len(lit.bytes)
            /\ cv.strings[a].bytes = lit.bytes
            /\ cv.strings[a].frees = IF cv.deletes = 0 THEN 0 ELSE 1
            /\ \A j \in 1..(a - 1) : cv.strings[j] = EarlierString

\* the narrow literal "ab" was folded next to an earlier buffer, then released
C15_Witness ==
    /\ FoldedStringLiteral
    /\ cv.cursor.eval.Val.stringKind = StringKindAscii
    /\ cv.info.Kind = "String"
    /\ cv.info.SubKind = StringKindAscii
    /\ Len(cv.strings) = 2
    /\ cv.strings[2].SizeBytes = 2
    /\ cv.strings[2].bytes = <<97, 98>>
    /\ cv.strings[2].frees = 1
    /\ cv.strings[1].frees = 0
    /\ cv.deletes = 1

\* C27: whenever pathogen_ComputeConstantValue returns false, the caller's
\* *info is exactly what it was before the call and no string buffer has been
\* allocated.
C27_FalseLeavesInfoAndHeap ==
    (cv.phase = "returned" /\ ~cv.ret) =>
        /\ cv.info = CallerInfo
        /\ cv.strings \in {<<>>, <<EarlierString>>}

\* an initializer that does not fold was evaluated: the call returned false
\* after EvaluateAsRValue, with the caller's structure as it was
C27_Witness ==
    /\ FoldFailed
    /\ ~cv.ret
    /\ cv.info = CallerInfo
    /\ cv.strings = <<EarlierString>>

\* a call of the cleanup operation with the address of the caller's structure
DeleteCalled == cv.phase = "returned" /\ cv'.deletes = cv.deletes + 1

\* a call of the cleanup operation with a null pointer
DeleteCalledWithNull == cv.phase = "returned" /\ cv'.nullDeletes = cv.nullDeletes + 1

\* C28: the cleanup operation releases the string buffer only when info is not
\* null, Kind is String and Value is not zero, a buffer never released before,
\* and then sets Value to zero; for every other Kind, for a zero Value and for
\* a null info it releases nothing and changes nothing.
C28_DeleteIdempotentKindGuarded ==
    [][/\ DeleteCalled =>
            IF cv.info.Kind = "String" /\ ~IsZeroValue(cv.info.Value)
            THEN LET a == cv.info.Value[2] IN
                 /\ cv.strings[a].frees = 0
                 /\ cv'.strings = [cv.strings EXCEPT ![a].frees = 1]
                 /\ cv'.info = [cv.info EXCEPT !.Value = <<"int", ZeroWord>>]
            ELSE cv'.info = cv.info /\ cv'.strings = cv.strings
       /\ DeleteCalledWithNull => (cv'.info = cv.info /\ cv'.strings = cv.strings)]_vars

\* the cleanup was called twice on a folded string and with a null pointer as
\* well: one release; and so it was on a folded integer: none
C28_Witness ==
    /\ cv.phase = "returned"
    /\ cv.deletes = MaxDeletes
    /\ cv.nullDeletes >= 1
    /\ cv.info.Kind = "String"
    /\ IsZeroValue(cv.info.Value)
    /\ cv.strings[Len(cv.strings)].frees = 1

-----------------------------------------------------------------------------
(* Properties of the function ABI classifier, checked under SpecAbi *)

\* pathogen_CreateArgumentInfo was applied to an ABIArgInfo
Described == ab.phase = "described"

\* the flags whose bit is set in the word
SetFlags(flags) ==
    {flag \in ArgumentFlagNames : HasFlag(flags, PathogenArgumentFlags(flag))}

\* C16: for every ABIArgInfo of every kind, the descriptor written by
\* pathogen_CreateArgumentInfo has only flags whose documented kinds include its
\* Kind (IsIndirectByVal, IsIndirectRealign and IsSRetAfterThis only for
\* Indirect, CanBeFlattened only for Direct, IsSignExtended only for Extend,
\* IsInAllocaSRet only for InAlloca), and its flags have a kind in common.
C16_FlagsValidForKind ==
    Described =>
        /\ \A flag \in SetFlags(ab.output.Flags) : ab.output.Kind \in RequiredKinds(flag)
        /\ \E kind \in PathogenArgumentKind :
              \A flag \in SetFlags(ab.output.Flags) : kind \in RequiredKinds(flag)

\* an IndirectAliased argument that must be realigned was described, and its
\* descriptor carries IsIndirectRealign
C16_Witness ==
    /\ Described
    /\ ab.input.kind = "IndirectAliased"
    /\ ab.input.indirectRealign
    /\ ab.output.Kind = "IndirectAliased"
    /\ "IsIndirectRealign" \in SetFlags(ab.output.Flags)

\* a query returned an arranged function
ArrangedReturned == ab.phase \in {"returned", "disposed"} /\ ab.result # NULL

\* C17: pathogen_CreateArrangedFunction makes one allocation, a header followed
\* by room for exactly ArgumentCount descriptors, ArgumentCount being the
\* number of arguments of the arranged function, and descriptor i describes
\* argument i; pathogen_DisposeArrangedFunction frees that block, and no other.
C17_OneBlockOneDescriptorPerArgument ==
    ArrangedReturned =>
        LET block == ab.blocks[ab.result]
            arguments == ab.function.arguments
        IN  /\ ab.result = Len(ab.blocks)
            /\ \A a \in 1..(ab.result - 1) : ab.blocks[a] = EarlierFunction
            /\ ab.result <= 2
            /\ block.capacity = Len(arguments)
            /\ block.ArgumentCount = Len(arguments)
            /\ Len(block.Arguments) = block.capacity
            /\ \A i \in 1..Len(arguments) :
                  /\ block.Arguments[i].Type = MakeCXType(arguments[i].type)
                  /\ block.Arguments[i].Kind = arguments[i].info.kind
            /\ block.frees = IF ab.phase = "disposed" THEN 1 ELSE 0

\* a function of two arguments was arranged next to an earlier block, its
\* descriptors keep the order of the arguments, and its block was freed
C17_Witness ==
    /\ ArrangedReturned
    /\ ab.phase = "disposed"
    /\ Len(ab.blocks) = 2
    /\ ab.blocks[1].frees = 0
    /\ ab.blocks[2].frees = 1
    /\ ab.blocks[2].ArgumentCount = 2
    /\ ab.blocks[2].Arguments[1].Kind = "Direct"
    /\ ab.blocks[2].Arguments[2].Kind = "Indirect"
    /\ ab.function.arguments[1].info.kind = "Direct"

\* the members of the descriptor the call stored a value in
Populated(argument) == argument.assigned = ArgumentFields

\* C18: every arranged function a query returns is fully populated: every
\* member of the header, of ReturnInfo and of each argument descriptor (Type,
\* Kind, Flags, Extra, Extra2) was assigned by the call, for every passing kind.
C18_FullyPopulated ==
    ArrangedReturned =>
        LET block == ab.blocks[ab.result] IN
        /\ block.assigned = HeaderFields
        /\ Populated(block.ReturnInfo)
        /\ \A i \in 1..Len(block.Arguments) : Populated(block.Arguments[i])

\* what the calls do assign: everything but Extra2, which only an
\* IndirectAliased descriptor gets
C18_PopulatedButExtra2 ==
    ArrangedReturned =>
        LET block == ab.blocks[ab.result]
            Assigned(argument) ==
                argument.assigned =
                    IF argument.Kind = "IndirectAliased" THEN ArgumentFields
                    ELSE ArgumentFields \ {"Extra2"}
        IN  /\ block.assigned = HeaderFields
            /\ Assigned(block.ReturnInfo)
            /\ \A i \in 1..Len(block.Arguments) : Assigned(block.Arguments[i])

\* a function with a Direct argument was arranged, and Extra2 of its descriptor
\* holds what the block held before the call
C18_Witness ==
    /\ ArrangedReturned
    /\ Len(ab.blocks[ab.result].Arguments) >= 1
    /\ ab.blocks[ab.result].Arguments[1].Kind = "Direct"
    /\ "Extra2" \notin ab.blocks[ab.result].Arguments[1].assigned
    /\ ab.blocks[ab.result].Arguments[1].Extra2 = 205

-----------------------------------------------------------------------------
(* Properties of pathogen_EnumerateMacros, checked under SpecMacros *)

\* the callbacks made for the identifier of the key
CallbacksNamed(key) == SelectSeq(mc.callbacks, LAMBDA cb : cb.macroInfo.Name = key)

\* the entry of the table with the key
EntryNamed(key) ==
    mc.idTable[CHOOSE i \in 1..Len(mc.idTable) : mc.idTable[i].key = key]

\* C19: the callback is invoked exactly once for each identifier of the table
\* that has a macro-directive history and never for one without; a macro
\* defined as function-like with one parameter and later undefined is described
\* with IsFunctionLike true, ParameterCount 1 and WasUndefined true.
C19_OneCallbackPerMacro ==
    mc.phase \in {"enumerating", "returned"} =>
        /\ \A i \in 1..Len(mc.idTable) :
              Len(CallbacksNamed(mc.idTable[i].key)) =
                 IF i < mc.it /\ mc.idTable[i].history # <<>> THEN 1 ELSE 0
        /\ \A k \in 1..Len(mc.callbacks) :
              \E i \in 1..Len(mc.idTable) :
                 mc.callbacks[k].macroInfo.Name = mc.idTable[i].key
        /\ mc.phase = "returned" => mc.it = Len(mc.idTable) + 1
        /\ \A k \in 1..Len(mc.callbacks) :
              EntryNamed(mc.callbacks[k].macroInfo.Name).history =
                    <<DefMacroDirective(FunctionLikeOneParameter), UndefMacroDirective>>
                 => /\ mc.callbacks[k].macroInfo.IsFunctionLike
                    /\ mc.callbacks[k].macroInfo.ParameterCount = 1
                    /\ mc.callbacks[k].macroInfo.WasUndefined

\* FOO(x) was defined and undefined, BAR never named a macro: one callback
C19_Witness ==
    /\ mc.phase = "returned"
    /\ Len(mc.idTable) = 2
    /\ mc.idTable[1].history =
          <<DefMacroDirective(FunctionLikeOneParameter), UndefMacroDirective>>
    /\ mc.idTable[2].history = <<>>
    /\ Len(mc.callbacks) = 1
    /\ mc.callbacks[1].macroInfo.Name = "FOO"
    /\ mc.callbacks[1].macroInfo.IsFunctionLike
    /\ mc.callbacks[1].macroInfo.ParameterCount = 1
    /\ mc.callbacks[1].macroInfo.WasUndefined

\* the parameters of the definition the callback reports
ReportedParameters(cb) ==
    LET history == EntryNamed(cb.macroInfo.Name).history
    IN  getDefinition(history, Len(history)).info.params

\* C20: at every callback ParameterNames and ParameterNameLengths hold exactly
\* ParameterCount entries, the names and lengths of the parameters of the macro
\* being reported in declaration order, and nothing of a macro reported before.
C20_ArraysOfCurrentMacro ==
    mc.phase \in {"enumerating", "returned"} =>
        \A k \in 1..Len(mc.callbacks) :
            LET cb == mc.callbacks[k]
                params == ReportedParameters(cb)
            IN  /\ cb.macroInfo.ParameterCount = Len(params)
                /\ Len(cb.ParameterNames) = cb.macroInfo.ParameterCount
                /\ Len(cb.ParameterNameLengths) = cb.macroInfo.ParameterCount
                /\ \A j \in 1..Len(params) :
                      /\ cb.ParameterNames[j] = params[j]
                      /\ cb.ParameterNameLengths[j] = Len(params[j])

\* a macro of two parameters was reported, then one of a single parameter
C20_Witness ==
    /\ Len(mc.callbacks) = 2
    /\ mc.callbacks[1].macroInfo.ParameterCount = 2
    /\ mc.callbacks[2].macroInfo.ParameterCount = 1
    /\ mc.callbacks[2].ParameterNames = <<"args">>
    /\ mc.callbacks[2].ParameterNameLengths = <<4>>

-----------------------------------------------------------------------------
(* Properties of the stand-alone queries, checked under SpecQueries *)

\* C21: pathogen_GetTypeSizes returns false and leaves every member of *sizes
\* as it was when sizes->PathogenTypeSizes differs from
\* sizeof(PathogenTypeSizes); when it matches, the call returns true and every
\* other member holds the size of the type it is named after.
C21_SizeMismatchFailsClosed ==
    qr.phase = "GetTypeSizes" =>
        IF qr.before["PathogenTypeSizes"] = sizeof("PathogenTypeSizes")
        THEN /\ qr.ret
             /\ \A f \in SizeFields \ {"PathogenTypeSizes"} : qr.sizes[f] = sizeof(f)
             /\ qr.sizes["PathogenTypeSizes"] = qr.before["PathogenTypeSizes"]
        ELSE /\ ~qr.ret
             /\ qr.sizes = qr.before

\* a caller built against a smaller PathogenTypeSizes was refused, its stale
\* members untouched
C21_Witness ==
    /\ qr.phase = "GetTypeSizes"
    /\ qr.before["PathogenTypeSizes"] = 48
    /\ qr.before["PathogenVTable"] = 0 - 1
    /\ ~qr.ret
    /\ qr.sizes["PathogenVTable"] = 0 - 1

\* the cursor of the call is not a declaration cursor
NotADeclaration == ~qr.cursor.isDeclaration

\* C23: each of the three entry points reports a cursor of the wrong kind by
\* its failure value: pathogen_getArgPassingRestrictions returns Invalid for a
\* cursor that is not a declaration or whose declaration is not a record;
\* pathogen_IsFunctionCallable returns a diagnostic set when the cursor has no
\* function declaration; pathogen_EnumerateDeclarationsRawMoveNext returns the
\* null cursor when the cursor is not a declaration or has no declaration.
C23_WrongKindReportedBySentinel ==
    /\ (qr.phase = "getArgPassingRestrictions"
            /\ (NotADeclaration \/ qr.cursor.decl # "Record")) =>
          qr.ret = "Invalid"
    /\ (qr.phase = "IsFunctionCallable" /\ qr.cursor.decl # "Function") =>
          (~qr.aborted /\ ~qr.ret.isNull)
    /\ (qr.phase = "EnumerateDeclarationsRawMoveNext"
            /\ (NotADeclaration \/ qr.cursor.decl = "null")) =>
          qr.ret = "NullCursor"

\* what does hold: a cursor that is not a declaration cursor is reported by
\* Invalid and by the null cursor
C23_NonDeclarationReported ==
    /\ (qr.phase = "getArgPassingRestrictions" /\ NotADeclaration) => qr.ret = "Invalid"
    /\ (qr.phase = "EnumerateDeclarationsRawMoveNext" /\ NotADeclaration) =>
          qr.ret = "NullCursor"

\* the cursor of a function declaration was asked for its argument passing
\* restrictions, and the call did not return Invalid
C23_Witness ==
    /\ qr.phase = "getArgPassingRestrictions"
    /\ qr.cursor.isDeclaration
    /\ qr.cursor.decl = "Function"
    /\ qr.ret # "Invalid"

\* the type cannot be completed
CannotBeCompleted(t) == t.isIncomplete /\ ~t.completes

\* the diagnostics of the returned set with that text and that type
DiagnosticsOf(text, name) ==
    {k \in 1..Len(qr.ret.Strings) : qr.ret.Strings[k] = Diagnostic(text, name)}

\* C29: pathogen_IsFunctionTypeCallable returns null exactly when the return
\* type is void, complete or completed on demand and every parameter type is
\* complete or completed on demand; otherwise it returns a set that holds, for
\* each type that failed, at least one diagnostic, labelled "Return type" for
\* the return type and "Argument type" for a parameter, and no other
\* diagnostic.  The closing assertions hold in every case.
C29_NullIffCallable ==
    (qr.phase = "IsFunctionTypeCallable" /\ qr.type.kind = "FunctionProto") =>
        LET returnType == qr.type.type.returnType
            paramTypes == qr.type.type.paramTypes
            returnFails == ~returnType.isVoid /\ CannotBeCompleted(returnType)
            failed == {i \in 1..Len(paramTypes) : CannotBeCompleted(paramTypes[i])}
        IN  /\ ~qr.aborted
            /\ qr.ret.isNull = (~returnFails /\ failed = {})
            /\ qr.ret.isNull => qr.ret.Strings = <<>>
            /\ returnFails => DiagnosticsOf("Return type", returnType.name) # {}
            /\ \A i \in failed :
                  Cardinality(DiagnosticsOf("Argument type", paramTypes[i].name))
                      >= Cardinality({j \in failed : paramTypes[j].name = paramTypes[i].name})
            /\ \A k \in 1..Len(qr.ret.Strings) :
                  \/ /\ returnFails
                     /\ qr.ret.Strings[k] = Diagnostic("Return type", returnType.name)
                  \/ \E i \in failed :
                        qr.ret.Strings[k] = Diagnostic("Argument type", paramTypes[i].name)

\* with assertions compiled in, a function type whose return type failed
\* without a call of the diagnoser and whose parameter failed with one
C29_Witness ==
    /\ qr.phase = "IsFunctionTypeCallable"
    /\ qr.type.kind = "FunctionProto"
    /\ ~qr.ndebug
    /\ ~qr.aborted
    /\ ~qr.ret.isNull
    /\ qr.ret.Strings = <<Diagnostic("Return type", "Silent"),
                          Diagnostic("Argument type", "Forward")>>

-----------------------------------------------------------------------------
(* Properties of the template instantiation helpers, checked under          *)
(* SpecTemplates                                                            *)

\* the types of the table, as it was when the sweep began, that satisfy P
TypesAtCall(P(_)) == {i \in 1..Len(tp.before) : P(tp.before[i])}

IsPartialOfDefined(type) ==
    type.class = "Record" /\ type.decl = "ClassTemplatePartialSpecialization"
        /\ type.templateDefined

IsFullOfDefined(type) ==
    type.class = "Record" /\ type.decl = "ClassTemplateSpecialization" /\ type.templateDefined

IsUndeclaredOfDefined(type) == IsFullOfDefined(type) /\ type.kind = "TSK_Undeclared"

\* the counts the table calls for
CountsFollowTable ==
    /\ tp.metrics.PartialSpecializationsCount = Cardinality(TypesAtCall(IsPartialOfDefined))
    /\ tp.metrics.TotalSpecializationsCount = Cardinality(TypesAtCall(IsFullOfDefined))
    /\ Len(tp.attempts) = Cardinality(TypesAtCall(IsUndeclaredOfDefined))
    /\ \A k \in 1..Len(tp.attempts) : IsUndeclaredOfDefined(tp.attempts[k])
    /\ tp.metrics.SuccessfulInstantiationsCount + tp.metrics.FailedInstantiationsCount
          = Len(tp.attempts)
    /\ Len(tp.attempts) <= tp.metrics.TotalSpecializationsCount

\* C22: over any type table the sweep returns, having counted each partial
\* specialization of a defined template in PartialSpecializationsCount and
\* each other specialization of a defined template in
\* TotalSpecializationsCount, having called the instantiation for exactly the
\* specializations that were Undeclared, with SuccessfulInstantiationsCount +
\* FailedInstantiationsCount equal to the number of those calls and at most
\* TotalSpecializationsCount.
C22_SweepCountsEverySpecialization ==
    /\ tp.phase # "fault"
    /\ tp.phase = "swept" => CountsFollowTable

\* what does hold: the counts are right whenever the table's buffer was not
\* reallocated while the loop ran
C22_CountsWhileTableInPlace ==
    (tp.phase = "swept" /\ ~tp.dangling) => CountsFollowTable

\* an instantiation grew the table beyond its capacity, and the sweep then
\* counted a partial specialization that the table does not hold
C22_Witness ==
    /\ tp.phase = "swept"
    /\ tp.dangling
    /\ TypesAtCall(IsPartialOfDefined) = {}
    /\ tp.metrics.PartialSpecializationsCount = 1

\* the cursor of a logged call does not refer to a class template specialization
NotASpecialization(e) ==
    \/ ~e.cursor.isDeclaration
    \/ e.cursor.decl # "Type"
    \/ ~IsClassTemplateSpecialization(e.before[e.cursor.index])

\* the logged call returned that value without a call of the semantic
\* analyser and without a change of the front end's state
ReturnedUntouched(e, value) == e.ret = value /\ ~e.invoked /\ e.after = e.before

\* C25: pathogen_InstantiateSpecializedClassTemplate returns false without
\* touching the front end's state for a cursor that is not a declaration or
\* whose declaration is not a class template specialization; for a
\* specialization whose kind is not Undeclared it returns true without an
\* instantiation; so a second call after a successful instantiation returns
\* true and changes nothing.
C25_InstantiateOnceThenTrue ==
    tp.phase = "single" =>
        /\ \A k \in 1..Len(tp.log) :
              LET e == tp.log[k] IN
              /\ NotASpecialization(e) => ReturnedUntouched(e, FALSE)
              /\ (~NotASpecialization(e) /\ e.before[e.cursor.index].kind # "TSK_Undeclared")
                    => ReturnedUntouched(e, TRUE)
        /\ \A j \in 1..Len(tp.log) : \A k \in (j + 1)..Len(tp.log) :
              (tp.log[j].cursor = tp.log[k].cursor /\ tp.log[j].invoked /\ tp.log[j].ret)
                  => ReturnedUntouched(tp.log[k], TRUE)

\* a specialization was instantiated by the first call, which added a type to
\* the table, and the second call on the same cursor returned true at once
C25_Witness ==
    /\ tp.phase = "single"
    /\ Len(tp.log) = 2
    /\ tp.log[1].cursor = tp.log[2].cursor
    /\ tp.log[1].invoked /\ tp.log[1].ret
    /\ Len(tp.log[1].after) = Len(tp.log[1].before) + 1
    /\ tp.log[2].ret /\ ~tp.log[2].invoked
    /\ tp.log[2].after = tp.log[2].before

-----------------------------------------------------------------------------
(* Properties of the raw declaration enumeration, checked under SpecDecls *)

\* the classes of the declarations visited so far, in the order of the visits
VisitedKinds == [k \in 1..Len(de.visited) |-> de.cursor.context.decls[de.visited[k]].kind]

\* the children of the cursor's context in declaration order, read off its chain
RECURSIVE ChainKinds(_, _)
ChainKinds(context, declaration) ==
    IF declaration = NULL THEN <<>>
    ELSE <<context.decls[declaration].kind>>
            \o ChainKinds(context, context.decls[declaration].NextInContext)

\* the cursor the enumeration began with is the cursor of a declaration context
IsContextCursor == de.cursor.isDeclaration /\ de.cursor.decl = "Context"

\* C26: the enumeration visits every child declaration of the context exactly
\* once, in declaration order, and then receives the null cursor; it receives
\* the null cursor at once when the cursor is not a declaration, not a
\* declaration context, or the context has no declarations.
C26_EveryChildOnceInOrder ==
    LET children == ChainKinds(de.cursor.context, de.cursor.context.FirstDecl) IN
    /\ de.phase # "fault"
    /\ \A j \in 1..Len(de.visited) : \A k \in 1..Len(de.visited) :
          de.visited[j] = de.visited[k] => j = k
    /\ de.phase = "enumerating" =>
          /\ IsContextCursor
          /\ Len(de.visited) <= Len(children)
          /\ VisitedKinds = SubSeq(children, 1, Len(de.visited))
    /\ de.phase = "done" =>
          IF IsContextCursor THEN VisitedKinds = children ELSE de.visited = <<>>

\* a context with three children was enumerated to the null cursor
C26_Witness ==
    /\ de.phase = "done"
    /\ IsContextCursor
    /\ VisitedKinds = <<"Field", "AccessSpec", "CXXMethod">>
    /\ de.current = NULL

-----------------------------------------------------------------------------
(* Properties of the code generator handle, checked under SpecCodeGen *)

\* both pointers of the structure are null
IsDisposed(handle) == handle.LlvmContext = NULL /\ handle.CodeGenerator = NULL

\* both pointers of the structure are set
IsCreated(handle) == handle.LlvmContext # NULL /\ handle.CodeGenerator # NULL

\* the objects some structure of the caller points to
Owned == UNION {{cg.handles[h].LlvmContext, cg.handles[h].CodeGenerator} : h \in Handles} \ {NULL}

\* every structure is in one of the two states; an object a structure points
\* to has not been deleted, every other object has been deleted exactly once
TwoStates ==
    /\ \A h \in Handles : IsDisposed(cg.handles[h]) \/ IsCreated(cg.handles[h])
    /\ \A a \in 1..Len(cg.objects) :
          cg.objects[a].deletes = IF a \in Owned THEN 0 ELSE 1

\* a call of pathogen_CreateCodeGenerator on structure h has returned
Created(h) ==
    /\ cg'.creates = cg.creates + 1
    /\ cg'.handles[h] # cg.handles[h]

\* a call of pathogen_DisposeCodeGenerator on structure h has returned
Disposed(h) ==
    /\ cg'.disposes = cg.disposes + 1
    /\ \A g \in Handles \ {h} : cg'.handles[g] = cg.handles[g]
    /\ IsDisposed(cg'.handles[h])
    /\ IsCreated(cg.handles[h]) \/ cg'.objects = cg.objects

\* C30: as long as pathogen_CreateCodeGenerator is called on structures whose
\* pointers are null, every structure is either disposed (both pointers null)
\* or created (both set, to objects not deleted); a create leaves both
\* pointers set to two new objects, a dispose deletes both objects once and
\* resets the pointers, a dispose of a disposed structure deletes nothing,
\* and every object no structure points to has been deleted exactly once.
C30_TwoStateLifecycle ==
    /\ [](~cg.misused => TwoStates)
    /\ [][(~cg'.misused /\ cg'.creates = cg.creates + 1) =>
            \E h \in Handles :
               /\ Created(h)
               /\ IsDisposed(cg.handles[h])
               /\ IsCreated(cg'.handles[h])
               /\ cg'.handles[h].LlvmContext > Len(cg.objects)
               /\ cg'.handles[h].CodeGenerator > Len(cg.objects)
               /\ cg'.handles[h].LlvmContext # cg'.handles[h].CodeGenerator
               /\ SubSeq(cg'.objects, 1, Len(cg.objects)) = cg.objects]_vars
    /\ [][(~cg.misused /\ cg'.disposes = cg.disposes + 1) =>
            \E h \in Handles :
               /\ Disposed(h)
               /\ IsDisposed(cg.handles[h]) => cg'.objects = cg.objects
               /\ IsCreated(cg.handles[h]) =>
                     cg'.objects =
                        [cg.objects EXCEPT ![cg.handles[h].CodeGenerator].deletes = 1,
                                           ![cg.handles[h].LlvmContext].deletes = 1]]_vars

\* one structure was created, disposed, disposed again and created again:
\* four objects, the first two deleted once, the last two alive
C30_Witness ==
    /\ cg.phase = "running"
    /\ ~cg.misused
    /\ cg.creates = 2
    /\ cg.disposes = 2
    /\ Len(cg.objects) = 4
    /\ cg.objects[1].deletes = 1 /\ cg.objects[2].deletes = 1
    /\ cg.handles[1] = [LlvmContext |-> 3, CodeGenerator |-> 4]
    /\ IsDisposed(cg.handles[2])

====
